---- MODULE Spec2Model ----
(***************************************************************************)
(* SprintAI content pipeline: the publish dispatcher (post_scheduler.py)   *)
(* over the content calendar, the credential store and the companion      *)
(* publication log, with the three platform adapters.                      *)
(*                                                                         *)
(* A string is modelled by what produced it (tag) and its length (len);    *)
(* a prefix of a string keeps the tag and shortens the length.             *)
(***************************************************************************)
EXTENDS Integers, Sequences, FiniteSets, TLC

\* ---------------------------------------------------------------- bounds
MaxPosts == 2
MaxTime == 1
MaxRuns == 2
MaxStoreFaults == 1

\* ------------------------------------------------------ program constants
\* mark_failed: error[:2000]
ErrLimit == 2000

None == "None"

PLATFORM_HANDLERS == {"facebook", "instagram", "google_business"}

Platforms == PLATFORM_HANDLERS \cup {"linkedin"}

Clients == {"c1", "c2"}

Runners == {1, 2}

Min(a, b) == IF a <= b THEN a ELSE b

\* ------------------------------------------------------------------ text
Text(tag, len) == [tag |-> tag, len |-> len]

NoText == Text("none", 0)

\* faulty variant: the error text is stored uncut
Prefix_NoCut(s, n) == s

\* error[:n]
Prefix(s, n) == [s EXCEPT !.len = Min(s.len, n)]

\* str(exc) of a requests timeout / of raise_for_status on a non-2xx answer
HttpErrors ==
    { Text("timeout", ErrLimit - 1),
      Text("http_error", ErrLimit),
      Text("http_error", ErrLimit + 1) }

\* str(exc) of a record-store call that raised
StoreErrorText == Text("store_error", ErrLimit + 2)

\* --------------------------------------------------------- HTTP responses
Json(post_id, id, name, access_token) ==
    [post_id |-> post_id, id |-> id, name |-> name, access_token |-> access_token]

NoJson == Json(None, None, None, None)

Ok2xx(json) == [ok |-> TRUE, json |-> json, exc |-> NoText]

Failure(exc) == [ok |-> FALSE, json |-> NoJson, exc |-> exc]

Failures == { Failure(e) : e \in HttpErrors }

Unused == Failure(NoText)

FacebookResponses ==
    Failures \cup { Ok2xx(Json(p, i, None, None)) : p \in {None, "P"}, i \in {None, "I"} }

ContainerResponses == Failures \cup { Ok2xx(Json(None, i, None, None)) : i \in {None, "C"} }

PublishResponses == Failures \cup { Ok2xx(Json(None, i, None, None)) : i \in {None, "M"} }

TokenResponses == Failures \cup { Ok2xx(Json(None, None, None, t)) : t \in {None, "T"} }

LocalPostResponses == Failures \cup { Ok2xx(Json(None, None, n, None)) : n \in {None, "N"} }

\* ------------------------------------------------------------ environment
VARIABLE environ   \* the names os.environ holds when the process starts

VARIABLES
    upserted,   \* oauth_callback.py: the record of the last upsert_connection call
    upserts     \* upsert_connection calls made so far

oauthVars == << upserted, upserts >>

VARIABLES
    clients,     \* stripe_webhook.py: sprintai_clients, a set of rows
    emails,      \* onboarding emails sent, in order: the --client_email of each
    delivered,   \* the request the /webhook route handled last
    response,    \* the HTTP status it answered with
    events       \* requests handled so far

webhookVars == << clients, emails, delivered, response, events >>

\* the state of the collaborators of the dispatcher and the Quality Gate
collaboratorState == << oauthVars, webhookVars >>

\* the settings the scheduler reads with os.environ[...]
Settings ==
    {"SUPABASE_URL", "SUPABASE_SERVICE_ROLE_KEY", "GOOGLE_CLIENT_ID", "GOOGLE_CLIENT_SECRET"}

\* get_supabase finds both of its settings
SupabaseConfigured == {"SUPABASE_URL", "SUPABASE_SERVICE_ROLE_KEY"} \subseteq environ

\* refresh_google_token finds both of its settings
GoogleConfigured == {"GOOGLE_CLIENT_ID", "GOOGLE_CLIENT_SECRET"} \subseteq environ

\* ------------------------------------------------------- adapter results
Call(endpoint, auth) == [endpoint |-> endpoint, auth |-> auth]

Return(value, calls, published) ==
    [raised |-> FALSE, value |-> value, exc |-> NoText, calls |-> calls,
     published |-> published]

Raise(exc, calls, published) ==
    [raised |-> TRUE, value |-> None, exc |-> exc, calls |-> calls,
     published |-> published]

\* what the caller of an adapter sees of a call
Outcome(res) == [raised |-> res.raised, value |-> res.value, exc |-> res.exc]

\* post.get("image_url") is truthy
HasImage(post) == post.image_url \notin {None, ""}

\* faulty variant: the adapter posts to the feed whether or not there is an image
post_facebook_AlwaysFeed(post, connection, resps) ==
    LET calls == << Call("fb_feed", connection.access_token) >>
        r == resps[1]
    IN  IF ~r.ok THEN Raise(r.exc, calls, FALSE)
        ELSE IF r.json.post_id # None THEN Return(r.json.post_id, calls, TRUE)
        ELSE IF r.json.id # None THEN Return(r.json.id, calls, TRUE)
        ELSE Return("unknown", calls, TRUE)

\* post_facebook: one call, photo post with an image, feed post without
post_facebook(post, connection, resps) ==
    LET endpoint == IF HasImage(post) THEN "fb_photos" ELSE "fb_feed"
        calls == << Call(endpoint, connection.access_token) >>
        r == resps[1]
    IN  IF ~r.ok THEN Raise(r.exc, calls, FALSE)
        ELSE IF r.json.post_id # None THEN Return(r.json.post_id, calls, TRUE)
        ELSE IF r.json.id # None THEN Return(r.json.id, calls, TRUE)
        ELSE Return("unknown", calls, TRUE)

\* faulty variant: the adapter does not look at image_url before it calls
post_instagram_NoImageCheck(post, connection, resps) ==
    LET c1 == << Call("ig_media", connection.access_token) >>
        c2 == Append(c1, Call("ig_media_publish", connection.access_token))
        r1 == resps[1]
        r2 == resps[2]
    IN  IF ~r1.ok THEN Raise(r1.exc, c1, FALSE)
        ELSE IF r1.json.id = None THEN Raise(Text("key_error", 4), c1, FALSE)
        ELSE IF ~r2.ok THEN Raise(r2.exc, c2, FALSE)
        ELSE IF r2.json.id # None THEN Return(r2.json.id, c2, TRUE)
        ELSE Return(r1.json.id, c2, TRUE)

\* faulty variant: the publish call is made whatever the container call answered
post_instagram_PublishesAnyway(post, connection, resps) ==
    LET c1 == << Call("ig_media", connection.access_token) >>
        c2 == Append(c1, Call("ig_media_publish", connection.access_token))
        r1 == resps[1]
        r2 == resps[2]
    IN  IF ~HasImage(post) THEN Raise(Text("missing_image", 37), << >>, FALSE)
        ELSE IF ~r1.ok THEN Raise(r1.exc, c2, FALSE)
        ELSE IF r1.json.id = None THEN Raise(Text("key_error", 4), c2, FALSE)
        ELSE IF ~r2.ok THEN Raise(r2.exc, c2, FALSE)
        ELSE IF r2.json.id # None THEN Return(r2.json.id, c2, TRUE)
        ELSE Return(r1.json.id, c2, TRUE)

\* faulty variant: the adapter returns the creation id whatever the publish
\* step answered
post_instagram_ReturnsCreationId(post, connection, resps) ==
    LET c1 == << Call("ig_media", connection.access_token) >>
        c2 == Append(c1, Call("ig_media_publish", connection.access_token))
        r1 == resps[1]
        r2 == resps[2]
    IN  IF ~HasImage(post) THEN Raise(Text("missing_image", 37), << >>, FALSE)
        ELSE IF ~r1.ok THEN Raise(r1.exc, c1, FALSE)
        ELSE IF r1.json.id = None THEN Raise(Text("key_error", 4), c1, FALSE)
        ELSE IF ~r2.ok THEN Raise(r2.exc, c2, FALSE)
        ELSE Return(r1.json.id, c2, TRUE)

\* post_instagram: create the media container, then publish it
post_instagram(post, connection, resps) ==
    LET c1 == << Call("ig_media", connection.access_token) >>
        c2 == Append(c1, Call("ig_media_publish", connection.access_token))
        r1 == resps[1]
        r2 == resps[2]
    IN  IF ~HasImage(post) THEN Raise(Text("missing_image", 37), << >>, FALSE)
        ELSE IF ~r1.ok THEN Raise(r1.exc, c1, FALSE)
        ELSE IF r1.json.id = None THEN Raise(Text("key_error", 4), c1, FALSE)
        ELSE IF ~r2.ok THEN Raise(r2.exc, c2, FALSE)
        ELSE IF r2.json.id # None THEN Return(r2.json.id, c2, TRUE)
        ELSE Return(r1.json.id, c2, TRUE)

\* faulty variant: when the token exchange fails the local post is sent with
\* the stored token
post_google_business_PostsAnyway(post, connection, resps) ==
    LET c1 == << Call("google_token", connection.access_token) >>
        r1 == resps[1]
        r2 == resps[2]
        c2 == Append(c1, Call("gb_local_posts", r1.json.access_token))
        c3 == Append(c1, Call("gb_local_posts", connection.access_token))
    IN  IF "GOOGLE_CLIENT_ID" \notin environ THEN Raise(Text("key_error", 18), << >>, FALSE)
        ELSE IF "GOOGLE_CLIENT_SECRET" \notin environ
        THEN Raise(Text("key_error", 22), << >>, FALSE)
        ELSE IF ~r1.ok THEN Raise(r1.exc, c3, FALSE)
        ELSE IF r1.json.access_token = None THEN Raise(Text("key_error", 14), c3, FALSE)
        ELSE IF ~r2.ok THEN Raise(r2.exc, c2, FALSE)
        ELSE IF r2.json.name # None THEN Return(r2.json.name, c2, TRUE)
        ELSE Return("unknown", c2, TRUE)

\* refresh_google_token + post_google_business
post_google_business(post, connection, resps) ==
    LET c1 == << Call("google_token", connection.access_token) >>
        r1 == resps[1]
        r2 == resps[2]
        c2 == Append(c1, Call("gb_local_posts", r1.json.access_token))
    IN  IF "GOOGLE_CLIENT_ID" \notin environ THEN Raise(Text("key_error", 18), << >>, FALSE)
        ELSE IF "GOOGLE_CLIENT_SECRET" \notin environ
        THEN Raise(Text("key_error", 22), << >>, FALSE)
        ELSE IF ~r1.ok THEN Raise(r1.exc, c1, FALSE)
        ELSE IF r1.json.access_token = None THEN Raise(Text("key_error", 14), c1, FALSE)
        ELSE IF ~r2.ok THEN Raise(r2.exc, c2, FALSE)
        ELSE IF r2.json.name # None THEN Return(r2.json.name, c2, TRUE)
        ELSE Return("unknown", c2, TRUE)

\* handler = PLATFORM_HANDLERS.get(platform); handler(post, connection)
Handler(post, connection, resps) ==
    CASE post.platform = "facebook" -> post_facebook(post, connection, resps)
      [] post.platform = "instagram" -> post_instagram(post, connection, resps)
      [] post.platform = "google_business" -> post_google_business(post, connection, resps)

\* What the platform may answer to the calls of one publish; the answer to a
\* call the adapter never gets to make is Unused.
Scripts(post) ==
    CASE post.platform = "facebook" -> { << r, Unused >> : r \in FacebookResponses }
      [] post.platform = "instagram" ->
            IF ~HasImage(post) THEN { << Unused, Unused >> }
            ELSE { << r1, Unused >> :
                     r1 \in { r \in ContainerResponses : ~r.ok \/ r.json.id = None } }
                 \cup { << r1, r2 >> :
                     r1 \in { r \in ContainerResponses : r.ok /\ r.json.id # None },
                     r2 \in PublishResponses }
      [] post.platform = "google_business" ->
            IF ~GoogleConfigured THEN { << Unused, Unused >> }
            ELSE
            { << r1, Unused >> :
                r1 \in { r \in TokenResponses : ~r.ok \/ r.json.access_token = None } }
            \cup { << r1, r2 >> :
                r1 \in { r \in TokenResponses : r.ok /\ r.json.access_token # None },
                r2 \in LocalPostResponses }
      [] OTHER -> {}

\* ------------------------------------------------------------------ state
VARIABLES
    calendar,      \* sprintai_content_calendar: post id -> row
    posts_log,     \* sprintai_posts: the companion publication log, in insert order
    connections,   \* sprintai_social_connections: set of credential rows
    now,           \* the clock read by datetime.now(timezone.utc)
    pc,            \* runner -> where run() stands
    pending,       \* runner -> the rows get_pending_posts returned
    idx,           \* runner -> position of the for loop in pending
    connection,    \* runner -> the row get_connection returned
    post_id,       \* runner -> what the handler returned
    now_iso,       \* runner -> the clock as mark_posted read it
    err,           \* runner -> the error text handed to mark_failed
    success,       \* runner -> counter
    failed,        \* runner -> counter
    skipped,       \* runner -> counter
    runs,          \* runner -> invocations of run() started so far
    outcomes,      \* post id -> what each handler call for it returned or raised, in order
    http,          \* post id -> the HTTP calls adapters made for it, in order
    published,     \* post id -> times the platform accepted a publish of it
    answers,       \* post id -> what the platform answered to the calls in http, in order
    storeFaults    \* record-store calls that raised so far

runnerVars == << pc, pending, idx, connection, post_id, now_iso, err, success, failed, skipped, runs >>

storeVars == << calendar, posts_log, connections >>

platformVars == << outcomes, http, published, answers >>


\* ------------------------------------------------------------ Quality Gate
MaxGateRuns == 2

\* APPROVAL_THRESHOLD = 7.0, in tenths
APPROVAL_THRESHOLD == 70

\* call_claude_qa(..., retries=2)
Retries == 2

\* a score column that holds no value
NoScore == -1

Gates == {1, 2}

Months == 0..MaxTime

\* the six rubric dimensions, under the keys apply_qa_result reads
Dimensions ==
    {"hook_strength", "local_specificity", "value_delivery", "cta_clarity", "platform_fit",
     "authenticity"}

\* Texts are sequences of characters.
Whitespace == {" "}

RECURSIVE lstrip(_)
lstrip(s) == IF s # << >> /\ Head(s) \in Whitespace THEN lstrip(Tail(s)) ELSE s

RECURSIVE rstrip(_)
rstrip(s) ==
    IF s # << >> /\ s[Len(s)] \in Whitespace THEN rstrip(SubSeq(s, 1, Len(s) - 1)) ELSE s

\* str.strip()
strip(s) == rstrip(lstrip(s))

\* the text content_generator.py wrote
OriginalText == << "o" >>

\* improved_version of an answer: empty, blank, a text with blanks around it
ImprovedVersions == { << >>, << " " >>, << " ", "n", " " >> }

\* sum(scores.values())
RECURSIVE SumOver(_, _)
SumOver(scores, keys) ==
    IF keys = {} THEN 0
    ELSE LET k == CHOOSE x \in keys : TRUE
         IN  scores[k] + SumOver(scores, keys \ {k})

\* round(total / n, 1) in tenths, for total >= 0; ties go to the even tenth
Round1(total, n) ==
    LET q == (10 * total) \div n
        rem == (10 * total) % n
    IN  IF 2 * rem > n THEN q + 1
        ELSE IF 2 * rem < n THEN q
        ELSE IF q % 2 = 0 THEN q ELSE q + 1

AllAt(v) == [d \in Dimensions |-> v]

EmptyScores == [d \in {} |-> 0]

\* what call_claude_qa gets back from one requests.post
Answer(kind, scores, average, verdict, improved_version) ==
    [kind |-> kind, scores |-> scores, average |-> average, verdict |-> verdict,
     improved_version |-> improved_version]

\* a timeout, a non-2xx status, a body that is not JSON, a JSON object without
\* one of the required keys
BadAnswers ==
    { Answer(k, EmptyScores, 0, None, << >>) :
        k \in {"timeout", "http_error", "not_json", "missing_key"} }

\* the scores of the answers the Gate is run against: sums 42 and 41 over six
\* dimensions, three dimensions only, a score outside 1..10, no score at all
GateScores ==
    { AllAt(7), [AllAt(7) EXCEPT !["authenticity"] = 6],
      [d \in {"hook_strength", "cta_clarity", "platform_fit"} |-> 8],
      [AllAt(1) EXCEPT !["hook_strength"] = 11], EmptyScores }

\* the average and the verdict the oracle wrote into its answer
OracleOpinions == { << 0, "REWRITE" >>, << 100, "APPROVED" >> }

OracleAnswers ==
    BadAnswers \cup
    { Answer("json", s, o[1], o[2], t) :
        s \in GateScores, o \in OracleOpinions, t \in ImprovedVersions }

NoQa == [scores |-> EmptyScores, average |-> NoScore, verdict |-> None,
         improved_version |-> << >>]

\* faulty variant: the average and the verdict of the answer are kept
TryAnswer_KeepsOpinion(a) ==
    IF a.kind # "json" \/ DOMAIN a.scores = {}
    THEN [raised |-> TRUE, result |-> NoQa]
    ELSE [raised |-> FALSE,
          result |-> [scores |-> a.scores, average |-> a.average, verdict |-> a.verdict,
                      improved_version |-> a.improved_version]]

\* call_claude_qa, the body of one attempt: raise_for_status, json.loads, the
\* required keys, then average and verdict computed from the scores
TryAnswer(a) ==
    IF a.kind # "json" \/ DOMAIN a.scores = {}
    THEN [raised |-> TRUE, result |-> NoQa]
    ELSE LET avg == Round1(SumOver(a.scores, DOMAIN a.scores), Cardinality(DOMAIN a.scores))
         IN  [raised |-> FALSE,
              result |-> [scores |-> a.scores, average |-> avg,
                          verdict |-> IF avg >= APPROVAL_THRESHOLD THEN "APPROVED"
                                      ELSE "REWRITE",
                          improved_version |-> a.improved_version]]

\* apply_qa_result: rewritten
Rewritten(result) == result.verdict = "REWRITE" /\ strip(result.improved_version) # << >>

\* the columns of a draft content_generator.py inserted
Unreviewed ==
    [post_text |-> OriginalText, status_prev |-> None, qa_score |-> NoScore,
     qa_rewritten |-> FALSE]

\* apply_qa_result: update_payload, laid over the columns the row has
UpdatePayload(columns, result) ==
    [post_text |-> IF Rewritten(result) THEN strip(result.improved_version)
                   ELSE columns.post_text,
     status_prev |-> "draft", qa_score |-> result.average,
     qa_rewritten |-> Rewritten(result)]

\* scores.get(key)
ScoreGet(scores, key) == IF key \in DOMAIN scores THEN scores[key] ELSE NoScore

\* apply_qa_result: log_row
LogRow(post, result) ==
    [client_id |-> post.client_id, calendar_id |-> post.id, platform |-> post.platform,
     score_hook |-> ScoreGet(result.scores, "hook_strength"),
     score_local |-> ScoreGet(result.scores, "local_specificity"),
     score_value |-> ScoreGet(result.scores, "value_delivery"),
     score_cta |-> ScoreGet(result.scores, "cta_clarity"),
     score_platform |-> ScoreGet(result.scores, "platform_fit"),
     score_authenticity |-> ScoreGet(result.scores, "authenticity"),
     score_average |-> result.average, verdict |-> result.verdict,
     was_rewritten |-> Rewritten(result)]

\* ------------------------------------------------------- Quality Gate state
VARIABLES
    qa_columns,       \* sprintai_content_calendar: post id -> the columns the Gate reads and writes
    qa_log,           \* sprintai_qa_log: the audit log, in insert order
    oracle,           \* per post, the oracle calls made for it: TRUE for an accepted answer
    gate_pc,          \* where each main() of content_qa.py stands
    gate_args,        \* its command line: client_id, month, dry_run
    drafts,           \* posts: the rows get_draft_posts returned
    gate_idx,         \* position of the for loop in posts
    attempt,          \* call_claude_qa: the loop variable
    qa,               \* what call_claude_qa returned for the current post
    approved_count,   \* main's counters
    rewritten_count,
    reviewed,         \* len(results)
    gate_runs         \* invocations of main() so far

gateVars == << gate_pc, gate_args, drafts, gate_idx, attempt, qa, approved_count,
               rewritten_count, reviewed, gate_runs >>

qaVars == << qa_columns, qa_log, oracle >>

gateState == << gateVars, qaVars >>

dispatcherState ==
    << runnerVars, platformVars, posts_log, connections, now, environ, collaboratorState >>

vars == << calendar, posts_log, connections, now, pc, pending, idx, connection, post_id,
           now_iso, err, success, failed, skipped, runs, outcomes, http, published, answers,
           storeFaults, qa_columns, qa_log, oracle, gate_pc, gate_args, drafts, gate_idx,
           attempt, qa, approved_count, rewritten_count, reviewed, gate_runs, environ,
           collaboratorState >>

PostIds == DOMAIN calendar

NoConnection == [client_id |-> None, platform |-> None, page_id |-> None, access_token |-> None]

Connection(c, pf, page, token) ==
    [client_id |-> c, platform |-> pf, page_id |-> page, access_token |-> token]

\* the credential rows the authorization exchange left: client c1 is connected
\* on every platform, client c2 on none
InitialConnections ==
    { Connection("c1", "facebook", "page1", "fb_token"),
      Connection("c1", "instagram", "ig1", "ig_token"),
      Connection("c1", "google_business", "loc1", "g_refresh") }

CalendarRows ==
    [client_id : Clients, platform : Platforms, image_url : {None, "", "img"},
     scheduled_at : 0..MaxTime, status : {"draft", "pending"}]

\* a row of the calendar as select("*") returns it
Row(p) ==
    [id |-> p, client_id |-> calendar[p].client_id, platform |-> calendar[p].platform,
     image_url |-> calendar[p].image_url, scheduled_at |-> calendar[p].scheduled_at,
     status |-> calendar[p].status]

RunnerInit ==
    /\ pc = [r \in Runners |-> "idle"]
    /\ pending = [r \in Runners |-> << >>]
    /\ idx = [r \in Runners |-> 0]
    /\ connection = [r \in Runners |-> NoConnection]
    /\ post_id = [r \in Runners |-> None]
    /\ now_iso = [r \in Runners |-> 0]
    /\ err = [r \in Runners |-> NoText]
    /\ success = [r \in Runners |-> 0]
    /\ failed = [r \in Runners |-> 0]
    /\ skipped = [r \in Runners |-> 0]
    /\ runs = [r \in Runners |-> 0]

NoArgs == [client_id |-> None, month |-> 0, dry_run |-> FALSE]

\* what a Gate run that approved the post unchanged left in its row
Reviewed == UpdatePayload(Unreviewed, TryAnswer(Answer("json", AllAt(7), 0, None, << >>)).result)

\* the posts of cal that are past the Gate, lowest id first
RECURSIVE ReviewedIds(_, _)
ReviewedIds(cal, n) ==
    IF n = 0 THEN << >>
    ELSE IF cal[n].status = "draft" THEN ReviewedIds(cal, n - 1)
    ELSE Append(ReviewedIds(cal, n - 1), n)

\* no Gate run is under way; the posts that are past the Gate carry its columns
\* and have their audit-log entry
GateInit(cal) ==
    /\ qa_columns = [p \in DOMAIN cal |->
                        IF cal[p].status = "draft" THEN Unreviewed ELSE Reviewed]
    /\ qa_log = [i \in 1..Len(ReviewedIds(cal, Len(cal))) |->
                    LET p == ReviewedIds(cal, Len(cal))[i]
                    IN  LogRow([id |-> p, client_id |-> cal[p].client_id,
                                platform |-> cal[p].platform],
                               TryAnswer(Answer("json", AllAt(7), 0, None, << >>)).result)]
    /\ oracle = [p \in DOMAIN cal |-> << >>]
    /\ gate_pc = [g \in Gates |-> "idle"]
    /\ gate_args = [g \in Gates |-> NoArgs]
    /\ drafts = [g \in Gates |-> << >>]
    /\ gate_idx = [g \in Gates |-> 0]
    /\ attempt = [g \in Gates |-> 0]
    /\ qa = [g \in Gates |-> NoQa]
    /\ approved_count = [g \in Gates |-> 0]
    /\ rewritten_count = [g \in Gates |-> 0]
    /\ reviewed = [g \in Gates |-> 0]
    /\ gate_runs = [g \in Gates |-> 0]

\* no authorization exchange has stored a credential row yet
OAuthInit ==
    /\ upserted = NoConnection
    /\ upserts = 0

\* customer_details of a checkout session: the key is absent, null, or an
\* object with email and name
Details(kind, email, name) == [kind |-> kind, email |-> email, name |-> name]

\* a request to /webhook: what construct_event makes of payload and signature,
\* the event, and how the store and the email subprocess will answer
Request(sig, type, customer_email, details, plan, store_ok, mail_rc) ==
    [sig |-> sig, type |-> type, customer_email |-> customer_email,
     customer_details |-> details, customer |-> "cus_1", plan |-> plan,
     store_ok |-> store_ok, mail_rc |-> mail_rc]

NoRequest == Request("none", "none", None, Details("absent", None, None), None, TRUE, 0)

\* no Stripe event has been delivered yet, sprintai_clients is empty
WebhookInit ==
    /\ clients = {}
    /\ emails = << >>
    /\ delivered = NoRequest
    /\ response = 0
    /\ events = 0

CollaboratorInit == OAuthInit /\ WebhookInit

\* the store holding the posts of cal and the credential rows conns, the
\* process environment env, nothing dispatched yet
InitStore(cal, conns, env) ==
    /\ calendar = cal
    /\ posts_log = << >>
    /\ connections = conns
    /\ now = 0
    /\ RunnerInit
    /\ outcomes = [p \in DOMAIN cal |-> << >>]
    /\ http = [p \in DOMAIN cal |-> << >>]
    /\ published = [p \in DOMAIN cal |-> 0]
    /\ answers = [p \in DOMAIN cal |-> << >>]
    /\ environ = env
    /\ storeFaults = 0
    /\ GateInit(cal)
    /\ CollaboratorInit

\* every setting is present, the credential rows are InitialConnections
InitWith(cal) == InitStore(cal, InitialConnections, Settings)

Init == \E cal \in [1..MaxPosts -> CalendarRows] : InitWith(cal)

\* ----------------------------------------------------------- record store
\* faulty variant: the status filter is missing from the query
get_pending_posts_NoStatus ==
    { p \in DOMAIN calendar : calendar[p].scheduled_at <= now }

\* faulty variant: the scheduled_at filter is missing from the query
get_pending_posts_NoDueFilter ==
    { p \in DOMAIN calendar : calendar[p].status = "pending" }

\* faulty variant: the query also returns the failed posts
get_pending_posts_WithFailed ==
    { p \in DOMAIN calendar :
        calendar[p].status \in {"pending", "failed"} /\ calendar[p].scheduled_at <= now }

\* get_pending_posts: .eq("status", "pending").lte("scheduled_at", now_iso)
get_pending_posts ==
    { p \in PostIds : calendar[p].status = "pending" /\ calendar[p].scheduled_at <= now }

\* The rows of a result set come in an order the query does not fix.
Orders(S) ==
    { f \in [1..Cardinality(S) -> S] : \A i, j \in 1..Cardinality(S) : f[i] = f[j] => i = j }

\* faulty variant: the client_id filter is missing from the query
get_connection_AnyClient(client_id, platform) ==
    { c \in connections : c.platform = platform }

\* get_connection: .eq("client_id", ..).eq("platform", ..).limit(1)
get_connection(client_id, platform) ==
    { c \in connections : c.client_id = client_id /\ c.platform = platform }

\* mark_posted / mark_failed, first statement: update({"status": s}).eq("id", id)
UpdateStatus(calendar_id, s) == [calendar EXCEPT ![calendar_id].status = s]

\* faulty variant: the companion row of a posted post lacks the external id
PostedRow_NoExternalId(calendar_id, client_id, platform, external_post_id, posted_at) ==
    [calendar_id |-> calendar_id, client_id |-> client_id, platform |-> platform,
     external_post_id |-> None, error_message |-> NoText, posted_at |-> posted_at]

\* mark_posted, second statement: the row inserted into sprintai_posts
PostedRow(calendar_id, client_id, platform, external_post_id, posted_at) ==
    [calendar_id |-> calendar_id, client_id |-> client_id, platform |-> platform,
     external_post_id |-> external_post_id, error_message |-> NoText,
     posted_at |-> posted_at]

\* mark_failed, second statement: the row inserted into sprintai_posts
FailedRow(calendar_id, client_id, platform, error) ==
    [calendar_id |-> calendar_id, client_id |-> client_id, platform |-> platform,
     external_post_id |-> None, error_message |-> Prefix(error, ErrLimit),
     posted_at |-> -1]

\* ------------------------------------------------------------ dispatcher
Post(r) == pending[r][idx[r]]

\* the for loop moves to the next row, or run() prints the counters and returns
Advance(r) ==
    /\ idx' = [idx EXCEPT ![r] = idx[r] + 1]
    /\ pc' = [pc EXCEPT ![r] = IF idx[r] + 1 > Len(pending[r]) THEN "done" ELSE "loop"]

\* an exception that nothing in run() catches ends the process
Crash(r) ==
    /\ storeFaults < MaxStoreFaults
    /\ storeFaults' = storeFaults + 1
    /\ pc' = [pc EXCEPT ![r] = "crashed"]

\* invocations of run() started so far, over all runners
Started == runs[1] + runs[2]

\* run(), up to the for loop: select, return early when nothing is pending
RunStart(r) ==
    /\ pc[r] \in {"idle", "done", "no_pending", "crashed"}
    /\ SupabaseConfigured
    /\ Started < MaxRuns
    /\ runs' = [runs EXCEPT ![r] = runs[r] + 1]
    /\ \E order \in Orders(get_pending_posts) :
          pending' = [pending EXCEPT ![r] = [i \in 1..Len(order) |-> Row(order[i])]]
    /\ idx' = [idx EXCEPT ![r] = 1]
    /\ pc' = [pc EXCEPT ![r] = IF get_pending_posts = {} THEN "no_pending" ELSE "loop"]
    /\ success' = [success EXCEPT ![r] = 0]
    /\ failed' = [failed EXCEPT ![r] = 0]
    /\ skipped' = [skipped EXCEPT ![r] = 0]
    /\ connection' = [connection EXCEPT ![r] = NoConnection]
    /\ post_id' = [post_id EXCEPT ![r] = None]
    /\ now_iso' = [now_iso EXCEPT ![r] = 0]
    /\ err' = [err EXCEPT ![r] = NoText]
    /\ UNCHANGED << storeVars, platformVars, now, storeFaults >>
    /\ UNCHANGED << gateState, environ, collaboratorState >>

\* get_pending_posts raises: run() ends before the loop
RunStartFault(r) ==
    /\ pc[r] \in {"idle", "done", "no_pending", "crashed"}
    /\ SupabaseConfigured
    /\ Started < MaxRuns
    /\ runs' = [runs EXCEPT ![r] = runs[r] + 1]
    /\ Crash(r)
    /\ pending' = [pending EXCEPT ![r] = << >>]
    /\ idx' = [idx EXCEPT ![r] = 0]
    /\ success' = [success EXCEPT ![r] = 0]
    /\ failed' = [failed EXCEPT ![r] = 0]
    /\ skipped' = [skipped EXCEPT ![r] = 0]
    /\ connection' = [connection EXCEPT ![r] = NoConnection]
    /\ post_id' = [post_id EXCEPT ![r] = None]
    /\ now_iso' = [now_iso EXCEPT ![r] = 0]
    /\ err' = [err EXCEPT ![r] = NoText]
    /\ UNCHANGED << storeVars, platformVars, now >>
    /\ UNCHANGED << gateState, environ, collaboratorState >>

\* faulty variant: an unregistered platform is treated as a failure of the post
Skip_MarksFailed(r) ==
    /\ pc[r] = "loop"
    /\ pending[r][idx[r]].platform \notin PLATFORM_HANDLERS
    /\ skipped' = [skipped EXCEPT ![r] = skipped[r] + 1]
    /\ calendar' = [calendar EXCEPT ![pending[r][idx[r]].id].status = "failed"]
    /\ idx' = [idx EXCEPT ![r] = idx[r] + 1]
    /\ pc' = [pc EXCEPT ![r] = IF idx[r] + 1 > Len(pending[r]) THEN "done" ELSE "loop"]
    /\ UNCHANGED << now_iso, posts_log, connections, outcomes, http, published, answers, now,
                    storeFaults, pending, connection, post_id, err, success, failed, runs >>
    /\ UNCHANGED << gateState, environ, collaboratorState >>

\* no handler registered for the platform: count as skipped, continue
Skip(r) ==
    /\ pc[r] = "loop"
    /\ Post(r).platform \notin PLATFORM_HANDLERS
    /\ skipped' = [skipped EXCEPT ![r] = skipped[r] + 1]
    /\ Advance(r)
    /\ UNCHANGED << now_iso, storeVars, platformVars, now, storeFaults, pending, connection,
                    post_id, err, success, failed, runs >>
    /\ UNCHANGED << gateState, environ, collaboratorState >>

\* a handler is registered: look the connection up; without one, mark_failed
GetConnection(r) ==
    /\ pc[r] = "loop"
    /\ Post(r).platform \in PLATFORM_HANDLERS
    /\ LET found == get_connection(Post(r).client_id, Post(r).platform)
       IN  IF found = {}
           THEN /\ connection' = [connection EXCEPT ![r] = NoConnection]
                /\ err' = [err EXCEPT ![r] = Text("no_connection", 50)]
                /\ pc' = [pc EXCEPT ![r] = "no_conn_update"]
           ELSE /\ \E c \in found : connection' = [connection EXCEPT ![r] = c]
                /\ err' = err
                /\ pc' = [pc EXCEPT ![r] = "handler"]
    /\ UNCHANGED << now_iso, storeVars, platformVars, now, storeFaults, pending, idx, post_id,
                    success, failed, skipped, runs >>
    /\ UNCHANGED << gateState, environ, collaboratorState >>

\* get_connection raises, outside the try block
GetConnectionFault(r) ==
    /\ pc[r] = "loop"
    /\ Post(r).platform \in PLATFORM_HANDLERS
    /\ Crash(r)
    /\ UNCHANGED << now_iso, storeVars, platformVars, now, pending, idx, connection, post_id, err,
                    success, failed, skipped, runs >>
    /\ UNCHANGED << gateState, environ, collaboratorState >>

\* faulty variant: the access token of the exchange is written to the
\* credential row
CallHandler_StoresToken(r, resps) ==
    /\ pc[r] = "handler"
    /\ LET p == Post(r).id
           res == Handler(Post(r), connection[r], resps)
       IN  /\ outcomes' = [outcomes EXCEPT ![p] = Append(outcomes[p], Outcome(res))]
           /\ http' = [http EXCEPT ![p] = http[p] \o res.calls]
           /\ answers' = [answers EXCEPT ![p] = answers[p] \o SubSeq(resps, 1, Len(res.calls))]
           /\ published' = [published EXCEPT ![p] =
                                published[p] + (IF res.published THEN 1 ELSE 0)]
           /\ connections' =
                 IF Post(r).platform = "google_business" /\ Len(res.calls) = 2
                 THEN (connections \ {connection[r]})
                          \cup {[connection[r] EXCEPT !.access_token = res.calls[2].auth]}
                 ELSE connections
           /\ IF res.raised
              THEN /\ err' = [err EXCEPT ![r] = res.exc]
                   /\ post_id' = post_id
                   /\ pc' = [pc EXCEPT ![r] = "failed_update"]
              ELSE /\ post_id' = [post_id EXCEPT ![r] = res.value]
                   /\ err' = err
                   /\ pc' = [pc EXCEPT ![r] = "posted_update"]
    /\ UNCHANGED << now_iso, calendar, posts_log, now, storeFaults, pending, idx, connection,
                    success, failed, skipped, runs >>
    /\ UNCHANGED << gateState, environ, collaboratorState >>

\* try: post_id = handler(post, connection)
CallHandler(r, resps) ==
    /\ pc[r] = "handler"
    /\ LET p == Post(r).id
           res == Handler(Post(r), connection[r], resps)
       IN  /\ outcomes' = [outcomes EXCEPT ![p] = Append(outcomes[p], Outcome(res))]
           /\ http' = [http EXCEPT ![p] = http[p] \o res.calls]
           /\ answers' = [answers EXCEPT ![p] = answers[p] \o SubSeq(resps, 1, Len(res.calls))]
           /\ published' = [published EXCEPT ![p] =
                                published[p] + (IF res.published THEN 1 ELSE 0)]
           /\ IF res.raised
              THEN /\ err' = [err EXCEPT ![r] = res.exc]
                   /\ post_id' = post_id
                   /\ pc' = [pc EXCEPT ![r] = "failed_update"]
              ELSE /\ post_id' = [post_id EXCEPT ![r] = res.value]
                   /\ err' = err
                   /\ pc' = [pc EXCEPT ![r] = "posted_update"]
    /\ UNCHANGED << now_iso, storeVars, now, storeFaults, pending, idx, connection, success,
                    failed, skipped, runs >>
    /\ UNCHANGED << gateState, environ, collaboratorState >>

\* the handler call under whatever the platform answers
Publish(r) ==
    /\ pc[r] = "handler"
    /\ \E resps \in Scripts(Post(r)) : CallHandler(r, resps)

\* mark_posted: now_iso is read, then the first statement
MarkPostedUpdate(r) ==
    /\ pc[r] = "posted_update"
    /\ now_iso' = [now_iso EXCEPT ![r] = now]
    /\ calendar' = UpdateStatus(Post(r).id, "posted")
    /\ pc' = [pc EXCEPT ![r] = "posted_insert"]
    /\ UNCHANGED << posts_log, connections, platformVars, now, storeFaults, pending, idx,
                    connection, post_id, err, success, failed, skipped, runs >>
    /\ UNCHANGED << gateState, environ, collaboratorState >>

\* mark_posted, second statement, then success += 1
MarkPostedInsert(r) ==
    /\ pc[r] = "posted_insert"
    /\ posts_log' = Append(posts_log,
                           PostedRow(Post(r).id, Post(r).client_id, Post(r).platform,
                                     post_id[r], now_iso[r]))
    /\ success' = [success EXCEPT ![r] = success[r] + 1]
    /\ Advance(r)
    /\ UNCHANGED << now_iso, calendar, connections, platformVars, now, storeFaults, pending,
                    connection, post_id, err, failed, skipped, runs >>
    /\ UNCHANGED << gateState, environ, collaboratorState >>

\* a statement of mark_posted raises inside the try block: except Exception
MarkPostedFault(r) ==
    /\ pc[r] \in {"posted_update", "posted_insert"}
    /\ storeFaults < MaxStoreFaults
    /\ storeFaults' = storeFaults + 1
    /\ err' = [err EXCEPT ![r] = StoreErrorText]
    /\ pc' = [pc EXCEPT ![r] = "failed_update"]
    /\ UNCHANGED << now_iso, storeVars, platformVars, now, pending, idx, connection, post_id,
                    success, failed, skipped, runs >>
    /\ UNCHANGED << gateState, environ, collaboratorState >>

\* faulty variant: the update of mark_failed leaves the status as it is
MarkFailedUpdate_KeepsPending(r) ==
    /\ pc[r] \in {"failed_update", "no_conn_update"}
    /\ calendar' = calendar
    /\ pc' = [pc EXCEPT ![r] = "failed_insert"]
    /\ UNCHANGED << now_iso, posts_log, connections, platformVars, now, storeFaults, pending, idx,
                    connection, post_id, err, success, failed, skipped, runs >>
    /\ UNCHANGED << gateState, environ, collaboratorState >>

\* mark_failed, first statement (from the except block or the no-connection branch)
MarkFailedUpdate(r) ==
    /\ pc[r] \in {"failed_update", "no_conn_update"}
    /\ calendar' = UpdateStatus(Post(r).id, "failed")
    /\ pc' = [pc EXCEPT ![r] = "failed_insert"]
    /\ UNCHANGED << now_iso, posts_log, connections, platformVars, now, storeFaults, pending, idx,
                    connection, post_id, err, success, failed, skipped, runs >>
    /\ UNCHANGED << gateState, environ, collaboratorState >>

\* faulty variant: the except block ends the loop after recording the failure
MarkFailedInsert_Break(r) ==
    /\ pc[r] = "failed_insert"
    /\ posts_log' = Append(posts_log,
                           [calendar_id |-> pending[r][idx[r]].id,
                            client_id |-> pending[r][idx[r]].client_id,
                            platform |-> pending[r][idx[r]].platform,
                            external_post_id |-> None,
                            error_message |-> [err[r] EXCEPT !.len = Min(err[r].len, ErrLimit)],
                            posted_at |-> -1])
    /\ failed' = [failed EXCEPT ![r] = failed[r] + 1]
    /\ idx' = [idx EXCEPT ![r] = Len(pending[r]) + 1]
    /\ pc' = [pc EXCEPT ![r] = "done"]
    /\ UNCHANGED << now_iso, calendar, connections, outcomes, http, published, answers, now,
                    storeFaults, pending, connection, post_id, err, success, skipped, runs >>
    /\ UNCHANGED << gateState, environ, collaboratorState >>

\* faulty variant: the except block records the failure and does not count it
MarkFailedInsert_NoCount(r) ==
    /\ pc[r] = "failed_insert"
    /\ posts_log' = Append(posts_log,
                           [calendar_id |-> pending[r][idx[r]].id,
                            client_id |-> pending[r][idx[r]].client_id,
                            platform |-> pending[r][idx[r]].platform,
                            external_post_id |-> None,
                            error_message |-> [err[r] EXCEPT !.len = Min(err[r].len, ErrLimit)],
                            posted_at |-> -1])
    /\ idx' = [idx EXCEPT ![r] = idx[r] + 1]
    /\ pc' = [pc EXCEPT ![r] = IF idx[r] + 1 > Len(pending[r]) THEN "done" ELSE "loop"]
    /\ UNCHANGED << now_iso, calendar, connections, outcomes, http, published, answers, now,
                    storeFaults, pending, connection, post_id, err, success, failed,
                    skipped, runs >>
    /\ UNCHANGED << gateState, environ, collaboratorState >>

\* mark_failed, second statement, then failed += 1
MarkFailedInsert(r) ==
    /\ pc[r] = "failed_insert"
    /\ posts_log' = Append(posts_log,
                           FailedRow(Post(r).id, Post(r).client_id, Post(r).platform,
                                     err[r]))
    /\ failed' = [failed EXCEPT ![r] = failed[r] + 1]
    /\ Advance(r)
    /\ UNCHANGED << now_iso, calendar, connections, platformVars, now, storeFaults, pending,
                    connection, post_id, err, success, skipped, runs >>
    /\ UNCHANGED << gateState, environ, collaboratorState >>

\* a statement of mark_failed raises: nothing catches it
MarkFailedFault(r) ==
    /\ pc[r] \in {"failed_update", "no_conn_update", "failed_insert"}
    /\ Crash(r)
    /\ UNCHANGED << now_iso, storeVars, platformVars, now, pending, idx, connection, post_id, err,
                    success, failed, skipped, runs >>
    /\ UNCHANGED << gateState, environ, collaboratorState >>

\* time passes
Tick ==
    /\ now < MaxTime
    /\ now' = now + 1
    /\ UNCHANGED << storeVars, platformVars, runnerVars, storeFaults >>
    /\ UNCHANGED << gateState, environ, collaboratorState >>

\* one step of run() with the record store answering
Step(r) ==
    \/ RunStart(r)
    \/ Skip(r)
    \/ GetConnection(r)
    \/ Publish(r)
    \/ MarkPostedUpdate(r)
    \/ MarkPostedInsert(r)
    \/ MarkFailedUpdate(r)
    \/ MarkFailedInsert(r)

\* one step of run() in which a record-store call raises
FaultStep(r) ==
    \/ RunStartFault(r)
    \/ GetConnectionFault(r)
    \/ MarkPostedFault(r)
    \/ MarkFailedFault(r)

\* one scheduler process, the record store answers every call
Next == Tick \/ Step(1)

Spec == Init /\ [][Next]_vars

\* one scheduler process, record-store calls may raise; every post is due
InitFaults ==
    /\ Init
    /\ \A p \in 1..MaxPosts : calendar[p].scheduled_at = 0

NextFaults == Step(1) \/ FaultStep(1)

SpecFaults == InitFaults /\ [][NextFaults]_vars

\* two scheduler processes against the same store (a cron run that starts while
\* the previous one is still working); post 1 has been through the Quality Gate,
\* the other posts are still drafts
InitConc ==
    /\ Init
    /\ calendar[1].status = "pending"
    /\ \A p \in 2..MaxPosts : calendar[p] = [client_id |-> "c1", platform |-> "facebook",
                                             image_url |-> None, scheduled_at |-> 0,
                                             status |-> "draft"]

NextConc == Tick \/ \E r \in Runners : Step(r)

SpecConc == InitConc /\ [][NextConc]_vars

\* run() of runner r is inside its for loop
InLoop(r) ==
    pc[r] \in {"loop", "handler", "posted_update", "posted_insert", "failed_update",
               "no_conn_update", "failed_insert"}

\* the process is stopped (killed, host restart) at any point of the for loop;
\* whatever it wrote stays written
Interrupt(r) ==
    /\ InLoop(r)
    /\ pc' = [pc EXCEPT ![r] = "crashed"]
    /\ UNCHANGED << storeVars, platformVars, now, pending, idx, connection, post_id, now_iso, err,
                    success, failed, skipped, runs, storeFaults >>
    /\ UNCHANGED << gateState, environ, collaboratorState >>

\* one scheduler process that may be stopped at any step and is then run
\* again; the record store answers every call, every post is due
NextInterrupt == Step(1) \/ Interrupt(1)

SpecInterrupt == InitFaults /\ [][NextInterrupt]_vars

\* ---------------------------------------------------- Quality Gate, main()
\* a row of the calendar as the Gate's select("*") returns it
DraftRow(p) ==
    [id |-> p, client_id |-> calendar[p].client_id, platform |-> calendar[p].platform,
     scheduled_at |-> calendar[p].scheduled_at, post_text |-> qa_columns[p].post_text]

\* get_draft_posts: .eq("client_id", ..).eq("status", "draft")
\*                  .gte("scheduled_at", start).lt("scheduled_at", end)
get_draft_posts(client_id, month) ==
    { p \in PostIds :
        /\ calendar[p].client_id = client_id
        /\ calendar[p].status = "draft"
        /\ calendar[p].scheduled_at >= month
        /\ calendar[p].scheduled_at < month + 1 }

\* .order("scheduled_at"); rows with equal scheduled_at come in any order
OrderedBySchedule(S) ==
    { f \in Orders(S) :
        \A i, j \in 1..Cardinality(S) :
            i < j => calendar[f[i]].scheduled_at <= calendar[f[j]].scheduled_at }

GatePost(g) == drafts[g][gate_idx[g]]

\* invocations of main() started so far, over all Gate processes
GateStarted == gate_runs[1] + gate_runs[2]

\* the for loop of main() moves to the next post, or main() prints the summary
GateAdvance(g) ==
    /\ gate_idx' = [gate_idx EXCEPT ![g] = gate_idx[g] + 1]
    /\ attempt' = [attempt EXCEPT ![g] = 0]
    /\ gate_pc' = [gate_pc EXCEPT ![g] = IF gate_idx[g] + 1 > Len(drafts[g]) THEN "done"
                                         ELSE "qa"]

\* an exception that nothing in main() catches ends the process
GateAbort(g) ==
    /\ storeFaults < MaxStoreFaults
    /\ storeFaults' = storeFaults + 1
    /\ gate_pc' = [gate_pc EXCEPT ![g] = "aborted"]

\* main(), up to the for loop: the arguments, get_draft_posts, exit when there
\* is no draft
GateStart(g) ==
    /\ gate_pc[g] \in {"idle", "done", "no_drafts", "aborted"}
    /\ SupabaseConfigured
    /\ GateStarted < MaxGateRuns
    /\ gate_runs' = [gate_runs EXCEPT ![g] = gate_runs[g] + 1]
    /\ \E client_id \in Clients, month \in Months, dry_run \in BOOLEAN :
          /\ gate_args' = [gate_args EXCEPT ![g] = [client_id |-> client_id, month |-> month,
                                                    dry_run |-> dry_run]]
          /\ \E order \in OrderedBySchedule(get_draft_posts(client_id, month)) :
                drafts' = [drafts EXCEPT ![g] = [i \in 1..Len(order) |-> DraftRow(order[i])]]
          /\ gate_pc' = [gate_pc EXCEPT ![g] = IF get_draft_posts(client_id, month) = {}
                                               THEN "no_drafts" ELSE "qa"]
    /\ gate_idx' = [gate_idx EXCEPT ![g] = 1]
    /\ attempt' = [attempt EXCEPT ![g] = 0]
    /\ qa' = [qa EXCEPT ![g] = NoQa]
    /\ approved_count' = [approved_count EXCEPT ![g] = 0]
    /\ rewritten_count' = [rewritten_count EXCEPT ![g] = 0]
    /\ reviewed' = [reviewed EXCEPT ![g] = 0]
    /\ UNCHANGED << calendar, qaVars, dispatcherState, storeFaults >>

\* get_client_record or get_draft_posts raises
GateStartFault(g) ==
    /\ gate_pc[g] \in {"idle", "done", "no_drafts", "aborted"}
    /\ SupabaseConfigured
    /\ GateStarted < MaxGateRuns
    /\ gate_runs' = [gate_runs EXCEPT ![g] = gate_runs[g] + 1]
    /\ GateAbort(g)
    /\ \E client_id \in Clients, month \in Months, dry_run \in BOOLEAN :
          gate_args' = [gate_args EXCEPT ![g] = [client_id |-> client_id, month |-> month,
                                                 dry_run |-> dry_run]]
    /\ drafts' = [drafts EXCEPT ![g] = << >>]
    /\ gate_idx' = [gate_idx EXCEPT ![g] = 0]
    /\ attempt' = [attempt EXCEPT ![g] = 0]
    /\ qa' = [qa EXCEPT ![g] = NoQa]
    /\ approved_count' = [approved_count EXCEPT ![g] = 0]
    /\ rewritten_count' = [rewritten_count EXCEPT ![g] = 0]
    /\ reviewed' = [reviewed EXCEPT ![g] = 0]
    /\ UNCHANGED << calendar, qaVars, dispatcherState >>

\* faulty variant: call_claude_qa keeps asking after the last retry
OracleCallWith_NoLimit(g, a) ==
    /\ oracle' = [oracle EXCEPT ![GatePost(g).id] = Append(@, ~TryAnswer(a).raised)]
    /\ IF ~TryAnswer(a).raised
       THEN /\ qa' = [qa EXCEPT ![g] = TryAnswer(a).result]
            /\ approved_count' = [approved_count EXCEPT ![g] =
                                     IF TryAnswer(a).result.verdict = "APPROVED" THEN @ + 1
                                     ELSE @]
            /\ rewritten_count' = [rewritten_count EXCEPT ![g] =
                                      IF TryAnswer(a).result.verdict = "APPROVED" THEN @
                                      ELSE @ + 1]
            /\ gate_pc' = [gate_pc EXCEPT ![g] = "apply"]
            /\ UNCHANGED << gate_idx, attempt >>
       ELSE /\ attempt' = [attempt EXCEPT ![g] = attempt[g] + 1]
            /\ UNCHANGED << qa, approved_count, rewritten_count, gate_pc, gate_idx >>
    /\ UNCHANGED << calendar, qa_columns, qa_log, gate_args, drafts, reviewed, gate_runs,
                    dispatcherState, storeFaults >>

\* one pass of the retry loop of call_claude_qa with answer a, and what main()
\* does with the outcome: count the verdict, or give the post up after the last
\* attempt and go on with the next
OracleCallWith(g, a) ==
    /\ oracle' = [oracle EXCEPT ![GatePost(g).id] = Append(@, ~TryAnswer(a).raised)]
    /\ IF ~TryAnswer(a).raised
       THEN /\ qa' = [qa EXCEPT ![g] = TryAnswer(a).result]
            /\ approved_count' = [approved_count EXCEPT ![g] =
                                     IF TryAnswer(a).result.verdict = "APPROVED" THEN @ + 1
                                     ELSE @]
            /\ rewritten_count' = [rewritten_count EXCEPT ![g] =
                                      IF TryAnswer(a).result.verdict = "APPROVED" THEN @
                                      ELSE @ + 1]
            /\ gate_pc' = [gate_pc EXCEPT ![g] = "apply"]
            /\ UNCHANGED << gate_idx, attempt >>
       ELSE IF attempt[g] < Retries
       THEN /\ attempt' = [attempt EXCEPT ![g] = attempt[g] + 1]
            /\ UNCHANGED << qa, approved_count, rewritten_count, gate_pc, gate_idx >>
       ELSE /\ GateAdvance(g)
            /\ UNCHANGED << qa, approved_count, rewritten_count >>
    /\ UNCHANGED << calendar, qa_columns, qa_log, gate_args, drafts, reviewed, gate_runs,
                    dispatcherState, storeFaults >>

OracleCall(g) ==
    /\ gate_pc[g] = "qa"
    /\ \E a \in OracleAnswers : OracleCallWith(g, a)

\* faulty variant: the dry-run flag is not looked at
ApplyQaUpdate_IgnoresDryRun(g) ==
    /\ gate_pc[g] = "apply"
    /\ calendar' = UpdateStatus(GatePost(g).id, "pending")
    /\ qa_columns' = [qa_columns EXCEPT ![GatePost(g).id] = UpdatePayload(@, qa[g])]
    /\ gate_pc' = [gate_pc EXCEPT ![g] = "log_insert"]
    /\ UNCHANGED << reviewed, gate_idx, attempt >>
    /\ UNCHANGED << qa_log, oracle, gate_args, drafts, qa, approved_count, rewritten_count,
                    gate_runs, dispatcherState, storeFaults >>

\* faulty variant: a rewrite verdict replaces the text even by a blank one
ApplyQaUpdate_BlankRewrite(g) ==
    /\ gate_pc[g] = "apply"
    /\ IF gate_args[g].dry_run
       THEN /\ reviewed' = [reviewed EXCEPT ![g] = reviewed[g] + 1]
            /\ GateAdvance(g)
            /\ UNCHANGED << calendar, qa_columns >>
       ELSE /\ calendar' = UpdateStatus(GatePost(g).id, "pending")
            /\ qa_columns' = [qa_columns EXCEPT ![GatePost(g).id] =
                                 [UpdatePayload(@, qa[g]) EXCEPT
                                     !.post_text = IF qa[g].verdict = "REWRITE"
                                                   THEN strip(qa[g].improved_version)
                                                   ELSE @,
                                     !.qa_rewritten = qa[g].verdict = "REWRITE"]]
            /\ gate_pc' = [gate_pc EXCEPT ![g] = "log_insert"]
            /\ UNCHANGED << reviewed, gate_idx, attempt >>
    /\ UNCHANGED << qa_log, oracle, gate_args, drafts, qa, approved_count, rewritten_count,
                    gate_runs, dispatcherState, storeFaults >>

\* apply_qa_result up to the update of the calendar row: nothing is written in
\* a dry run, else status, qa columns and (when rewritten) the text are written
\* to the row with the post's id
ApplyQaUpdate(g) ==
    /\ gate_pc[g] = "apply"
    /\ IF gate_args[g].dry_run
       THEN /\ reviewed' = [reviewed EXCEPT ![g] = reviewed[g] + 1]
            /\ GateAdvance(g)
            /\ UNCHANGED << calendar, qa_columns >>
       ELSE /\ calendar' = UpdateStatus(GatePost(g).id, "pending")
            /\ qa_columns' = [qa_columns EXCEPT ![GatePost(g).id] = UpdatePayload(@, qa[g])]
            /\ gate_pc' = [gate_pc EXCEPT ![g] = "log_insert"]
            /\ UNCHANGED << reviewed, gate_idx, attempt >>
    /\ UNCHANGED << qa_log, oracle, gate_args, drafts, qa, approved_count, rewritten_count,
                    gate_runs, dispatcherState, storeFaults >>

\* the update of the calendar row raises
ApplyQaUpdateFault(g) ==
    /\ gate_pc[g] = "apply"
    /\ ~gate_args[g].dry_run
    /\ GateAbort(g)
    /\ UNCHANGED << calendar, qaVars, gate_args, drafts, gate_idx, attempt, qa,
                    approved_count, rewritten_count, reviewed, gate_runs, dispatcherState >>

\* apply_qa_result, the insert into sprintai_qa_log; main() appends to results
QaLogInsert(g) ==
    /\ gate_pc[g] = "log_insert"
    /\ qa_log' = Append(qa_log, LogRow(GatePost(g), qa[g]))
    /\ reviewed' = [reviewed EXCEPT ![g] = reviewed[g] + 1]
    /\ GateAdvance(g)
    /\ UNCHANGED << calendar, qa_columns, oracle, gate_args, drafts, qa, approved_count,
                    rewritten_count, gate_runs, dispatcherState, storeFaults >>

\* the insert into sprintai_qa_log raises
QaLogInsertFault(g) ==
    /\ gate_pc[g] = "log_insert"
    /\ GateAbort(g)
    /\ UNCHANGED << calendar, qaVars, gate_args, drafts, gate_idx, attempt, qa,
                    approved_count, rewritten_count, reviewed, gate_runs, dispatcherState >>

\* one step of main() with the record store answering
GateStep(g) ==
    \/ GateStart(g)
    \/ OracleCall(g)
    \/ ApplyQaUpdate(g)
    \/ QaLogInsert(g)

\* one step of main() in which a record-store call raises
GateFaultStep(g) ==
    \/ GateStartFault(g)
    \/ ApplyQaUpdateFault(g)
    \/ QaLogInsertFault(g)

\* the posts of client c1 and of the first month are drafts or past the Gate,
\* none is dispatched yet
InitGate ==
    /\ Init
    /\ \A p \in 1..MaxPosts :
          /\ calendar[p].platform = "facebook"
          /\ calendar[p].image_url = None
          /\ calendar[p].client_id = "c1"

\* one Gate process, the record store answers every call
NextGate == GateStep(1)

SpecGate == InitGate /\ [][NextGate]_vars

\* one Gate process, record-store calls may raise
NextGateFaults == GateStep(1) \/ GateFaultStep(1)

SpecGateFaults == InitGate /\ [][NextGateFaults]_vars

\* the scores a rubric dimension is given when call_claude_qa is checked alone
ScoreSample == {1, 6, 7, 8, 10}

\* answers that are well formed: six scores, each in 1..10
SixScoreAnswers ==
    { Answer("json", s, o[1], o[2], << >>) :
        s \in [Dimensions -> ScoreSample], o \in OracleOpinions }

\* call_claude_qa for the first draft, answered with six scores
Score(g) ==
    /\ gate_pc[g] = "qa"
    /\ \E a \in SixScoreAnswers : OracleCallWith(g, a)

\* every post is a draft of the first month
InitVerdict ==
    /\ InitGate
    /\ \A p \in 1..MaxPosts : calendar[p].status = "draft" /\ calendar[p].scheduled_at = 0

NextVerdict == GateStart(1) \/ Score(1)

SpecVerdict == InitVerdict /\ [][NextVerdict]_vars

\* Gate runs and a dispatcher run against the same store; post 1 is a draft of
\* client c1 that is due, the other posts are past the Gate and due later
InitPipeline ==
    /\ InitGate
    /\ calendar[1].status = "draft"
    /\ calendar[1].scheduled_at = 0
    /\ \A p \in 2..MaxPosts :
          calendar[p].status = "pending" /\ calendar[p].scheduled_at = MaxTime

\* the oracle's answers in the pipeline: a timeout, an approval, a rewrite
PipelineAnswers ==
    { a \in OracleAnswers :
        \/ a.kind = "timeout"
        \/ /\ a.kind = "json"
           /\ a.average = 0
           /\ << a.scores, a.improved_version >> \in
                 { << AllAt(7), << >> >>,
                   << [AllAt(7) EXCEPT !["authenticity"] = 6], << " ", "n", " " >> >> } }

OraclePipeline(g) ==
    /\ gate_pc[g] = "qa"
    /\ \E a \in PipelineAnswers : OracleCallWith(g, a)

GatePipelineStep(g) ==
    \/ GateStart(g)
    \/ OraclePipeline(g)
    \/ ApplyQaUpdate(g)
    \/ QaLogInsert(g)

\* one step of run(); every post of the pipeline is on a registered platform
DispatchPipelineStep(r) ==
    \/ RunStart(r)
    \/ GetConnection(r)
    \/ Publish(r)
    \/ MarkPostedUpdate(r)
    \/ MarkPostedInsert(r)
    \/ MarkFailedUpdate(r)
    \/ MarkFailedInsert(r)

NextPipeline == DispatchPipelineStep(1) \/ \E g \in Gates : GatePipelineStep(g)

SpecPipeline == InitPipeline /\ [][NextPipeline]_vars

\* get_supabase raises KeyError: run() ends before its first store call
RunStartNoConfig(r) ==
    /\ pc[r] \in {"idle", "done", "no_pending", "crashed"}
    /\ ~SupabaseConfigured
    /\ Started < MaxRuns
    /\ runs' = [runs EXCEPT ![r] = runs[r] + 1]
    /\ pc' = [pc EXCEPT ![r] = "crashed"]
    /\ UNCHANGED << storeVars, platformVars, now, pending, idx, connection, post_id, now_iso,
                    err, success, failed, skipped, storeFaults >>
    /\ UNCHANGED << gateState, environ, collaboratorState >>

\* one scheduler process started with one of its settings missing; every post
\* is pending and due
InitConfig ==
    \E cal \in [1..MaxPosts -> CalendarRows], missing \in Settings :
        /\ \A p \in 1..MaxPosts : cal[p].scheduled_at = 0 /\ cal[p].status = "pending"
        /\ InitStore(cal, InitialConnections, Settings \ {missing})

NextConfig == Step(1) \/ RunStartNoConfig(1)

SpecConfig == InitConfig /\ [][NextConfig]_vars

\* --------------------------------------------------------------- scenario
\* 3 pending Facebook posts and 2 pending Instagram posts (one without an
\* image), all due, client c1 connected everywhere
ScenarioRow(platform, image_url) ==
    [client_id |-> "c1", platform |-> platform, image_url |-> image_url,
     scheduled_at |-> 0, status |-> "pending"]

ScenarioCalendar ==
    << ScenarioRow("facebook", "img"), ScenarioRow("facebook", None),
       ScenarioRow("facebook", None), ScenarioRow("instagram", "img"),
       ScenarioRow("instagram", None) >>

InitScenario == InitWith(ScenarioCalendar)

\* Facebook adapter calls made so far
FacebookCalls ==
    Cardinality(UNION { { << p, i >> : i \in { j \in 1..Len(http[p]) :
                              http[p][j].endpoint \in {"fb_photos", "fb_feed"} } } :
                        p \in PostIds })

\* the second Facebook call times out, every other call the platforms answer
\* with success
ScenarioScripts(r) ==
    IF Post(r).platform = "facebook" /\ FacebookCalls = 1
    THEN { s \in Scripts(Post(r)) : ~s[1].ok /\ s[1].exc.tag = "timeout" }
    ELSE { s \in Scripts(Post(r)) : s[1] = Unused \/ ~Handler(Post(r), connection[r], s).raised }

PublishScenario(r) ==
    /\ pc[r] = "handler"
    /\ \E resps \in ScenarioScripts(r) : CallHandler(r, resps)

NextScenario ==
    \/ RunStart(1)
    \/ GetConnection(1)
    \/ PublishScenario(1)
    \/ MarkPostedUpdate(1)
    \/ MarkPostedInsert(1)
    \/ MarkFailedUpdate(1)
    \/ MarkFailedInsert(1)

SpecScenario == InitScenario /\ [][NextScenario]_vars

\* ================================================================ claims
Terminal == {"posted", "failed"}

\* the companion rows of post p, by position in the log
RowsFor(p) == { i \in 1..Len(posts_log) : posts_log[i].calendar_id = p }

\* how many handler calls were made for post p
Invoked(p) == Len(outcomes[p])

\* C1: every external publish of a post is preceded by (or atomic with) the
\* store write that takes the post out of pending, so a poll that starts while
\* another run works on the post does not select it and no post is externally
\* published more than once.  The code publishes first and writes the status
\* afterwards: two overlapping runs both select and publish the post.
C1_PublishedAtMostOnce ==
    \A p \in PostIds :
        /\ published[p] <= 1
        /\ \A r \in Runners :
              pc[r] = "handler" /\ Post(r).id = p => published[p] = 0

\* C2: within a run, a post whose status is posted or failed never gets another
\* status, whatever the adapter and the store writes do.  When the insert of
\* mark_posted raises after its update wrote posted, the except block runs
\* mark_failed, which writes failed.
C2_TerminalStatusKept ==
    [][\A p \in PostIds :
          calendar[p].status \in Terminal => calendar'[p].status = calendar[p].status]_vars

\* ---------------------------------------------------------------- helpers
Registered == {"facebook", "instagram", "google_business"}

\* positions of pending[r] whose iteration is over
Processed(r) == { i \in 1..Len(pending[r]) : i < idx[r] }

\* the credential store holds a row for the post's client and platform
Connected(p) ==
    \E c \in connections :
        c.client_id = calendar[p].client_id /\ c.platform = calendar[p].platform

\* the first handler call for p returned an external id / raised
Returned(p) == Invoked(p) >= 1 /\ ~outcomes[p][1].raised

Raised(p) == Invoked(p) >= 1 /\ outcomes[p][1].raised

\* C3: two invocations in sequence transition each eligible post exactly once;
\* the later one selects no post that is already posted or failed, calls no
\* adapter for it and appends no companion record for it.
C3_IdempotentSelection ==
    \A p \in PostIds :
        /\ Invoked(p) <= 1
        /\ Cardinality(RowsFor(p)) <= 1
        /\ \A r \in Runners : \A i \in 1..Len(pending[r]) :
              (InLoop(r) /\ pending[r][i].id = p /\ calendar[p].status \in Terminal)
                  => (i < idx[r] \/ (i = idx[r] /\ pc[r] \in {"posted_insert", "failed_insert"}))
        /\ \A r \in Runners : \A i \in 1..Len(pending[r]) :
              (pc[r] = "done" /\ pending[r][i].id = p /\ calendar[p].platform \in Registered)
                  => /\ calendar[p].status \in Terminal
                     /\ Cardinality(RowsFor(p)) = 1
                     /\ Connected(p) => Invoked(p) = 1

\* C3 witness: a second invocation has run after the first one moved a post to
\* a terminal status, and found nothing to select.
C3_Witness ==
    /\ runs[1] = 2
    /\ pc[1] = "no_pending"
    /\ \E p \in PostIds :
          /\ calendar[p].status = "posted"
          /\ Invoked(p) = 1
          /\ Cardinality(RowsFor(p)) = 1

\* C4: when a run completes, every selected post with a handler and a
\* connection has had its handler called, and ends failed if its own call
\* raised and posted if its own call returned: a raising call does not end the
\* loop.
C4_PerItemIsolation ==
    \A r \in Runners :
        pc[r] = "done" =>
            \A i \in 1..Len(pending[r]) :
                LET p == pending[r][i].id
                IN  (calendar[p].platform \in Registered /\ Connected(p)) =>
                        /\ Invoked(p) = 1
                        /\ Raised(p) => calendar[p].status = "failed"
                        /\ Returned(p) => calendar[p].status = "posted"

\* C4 witness: a completed run over two posts, the first call raised, the
\* second returned.
C4_Witness ==
    /\ pc[1] = "done"
    /\ Len(pending[1]) = 2
    /\ Raised(pending[1][1].id)
    /\ Returned(pending[1][2].id)
    /\ calendar[pending[1][1].id].status = "failed"
    /\ calendar[pending[1][2].id].status = "posted"

\* posts of the scenario on a platform with a status
ScenarioCount(platform, status) ==
    Cardinality({ p \in PostIds :
                    calendar[p].platform = platform /\ calendar[p].status = status })

\* C5: the scenario run (3 Facebook posts, 2 Instagram posts, one without an
\* image, the second Facebook call times out) ends with 2 Facebook posted and 1
\* failed, 1 Instagram posted and 1 failed, counters posted=3 failed=2 skipped=0.
C5_Scenario ==
    pc[1] = "done" =>
        /\ ScenarioCount("facebook", "posted") = 2
        /\ ScenarioCount("facebook", "failed") = 1
        /\ ScenarioCount("instagram", "posted") = 1
        /\ ScenarioCount("instagram", "failed") = 1
        /\ calendar[5].status = "failed"
        /\ success[1] = 3
        /\ failed[1] = 2
        /\ skipped[1] = 0

\* C5 witness: the scenario run has completed, with the timeout on a Facebook
\* post and the missing image on the Instagram post.
C5_Witness ==
    /\ pc[1] = "done"
    /\ \E p \in 1..3 : Raised(p) /\ outcomes[p][1].exc.tag = "timeout"
    /\ Raised(5)
    /\ outcomes[5][1].exc.tag = "missing_image"

\* C6: only a post that was pending and due when the run selected it gets a
\* handler call, a status change or a companion record; a selection holds only
\* posts that are pending and due at that moment.
C6_OnlyPendingDue ==
    [][/\ \A p \in PostIds :
             (calendar'[p] # calendar[p] \/ outcomes'[p] # outcomes[p]
                 \/ Cardinality(RowsFor(p))' # Cardinality(RowsFor(p)))
               => \E r \in Runners :
                     /\ InLoop(r)
                     /\ Post(r).id = p
                     /\ Post(r).status = "pending"
                     /\ Post(r).scheduled_at <= now
       /\ \A r \in Runners :
             (~InLoop(r) /\ InLoop(r)') =>
                 \A i \in 1..Len(pending'[r]) :
                     /\ calendar[pending'[r][i].id].status = "pending"
                     /\ calendar[pending'[r][i].id].scheduled_at <= now
                     /\ pending'[r][i].status = "pending"
                     /\ pending'[r][i].scheduled_at = calendar[pending'[r][i].id].scheduled_at
      ]_vars

\* C6 witness: a run completed and posted one post while another post, pending
\* but not yet due, was left alone.
C6_Witness ==
    /\ pc[1] = "done"
    /\ \E p, q \in PostIds :
          /\ calendar[q].status = "posted"
          /\ calendar[p].status = "pending"
          /\ calendar[p].platform \in Registered
          /\ calendar[p].scheduled_at > now
          /\ Invoked(p) = 0
          /\ RowsFor(p) = {}

\* C7: a post whose handler call returned an external id is set to posted, gets
\* exactly one companion record with its id, client, platform, that external id
\* and a posted_at time, and is counted as posted.
C7_PostedOnReturn ==
    /\ \A p \in PostIds :
          Returned(p) =>
              IF \E r \in Runners :
                     pc[r] \in {"posted_update", "posted_insert"} /\ Post(r).id = p
              THEN \A r \in Runners :
                     (pc[r] \in {"posted_update", "posted_insert"} /\ Post(r).id = p) =>
                         /\ post_id[r] = outcomes[p][1].value
                         /\ pc[r] = "posted_insert" => calendar[p].status = "posted"
                         /\ RowsFor(p) = {}
              ELSE /\ calendar[p].status = "posted"
                   /\ Cardinality(RowsFor(p)) = 1
                   /\ \A i \in RowsFor(p) :
                         /\ posts_log[i].calendar_id = p
                         /\ posts_log[i].client_id = calendar[p].client_id
                         /\ posts_log[i].platform = calendar[p].platform
                         /\ posts_log[i].external_post_id = outcomes[p][1].value
                         /\ posts_log[i].external_post_id # None
                         /\ posts_log[i].error_message = NoText
                         /\ posts_log[i].posted_at \in 0..now
    /\ \A r \in Runners :
          success[r] = Cardinality({ i \in Processed(r) : Returned(pending[r][i].id) })

\* C7 witness: a post is posted with the external id the platform returned in
\* its companion record, and the run counted it.
C7_Witness ==
    \E p \in PostIds :
        /\ calendar[p].status = "posted"
        /\ Returned(p)
        /\ outcomes[p][1].value = "P"
        /\ \E i \in RowsFor(p) : posts_log[i].external_post_id = "P"
        /\ success[1] = 1
        /\ pc[1] = "done"

\* C8: a post whose handler call raised is set to failed, gets exactly one
\* companion record with the exception text cut to at most 2000 characters (a
\* text of 2000 characters or fewer unchanged) and no external id, and is
\* counted as failed.
C8_FailedOnException ==
    /\ \A p \in PostIds :
          Raised(p) =>
              IF \E r \in Runners :
                     pc[r] \in {"failed_update", "failed_insert"} /\ Post(r).id = p
              THEN \A r \in Runners :
                     (pc[r] \in {"failed_update", "failed_insert"} /\ Post(r).id = p) =>
                         /\ err[r] = outcomes[p][1].exc
                         /\ pc[r] = "failed_insert" => calendar[p].status = "failed"
                         /\ RowsFor(p) = {}
              ELSE /\ calendar[p].status = "failed"
                   /\ Cardinality(RowsFor(p)) = 1
                   /\ \A i \in RowsFor(p) :
                         /\ posts_log[i].client_id = calendar[p].client_id
                         /\ posts_log[i].platform = calendar[p].platform
                         /\ posts_log[i].external_post_id = None
                         /\ posts_log[i].error_message.tag = outcomes[p][1].exc.tag
                         /\ posts_log[i].error_message.len <= 2000
                         /\ outcomes[p][1].exc.len <= 2000
                                => posts_log[i].error_message = outcomes[p][1].exc
                         /\ outcomes[p][1].exc.len > 2000
                                => posts_log[i].error_message.len = 2000
    /\ \A r \in Runners :
          failed[r] = Cardinality({ i \in Processed(r) :
                          \/ Raised(pending[r][i].id)
                          \/ /\ calendar[pending[r][i].id].platform \in Registered
                             /\ ~Connected(pending[r][i].id) })

\* C8 witness: a handler call raised with a text of 2001 characters and the
\* post is failed with the 2000-character prefix in its companion record.
C8_Witness ==
    \E p \in PostIds :
        /\ Raised(p)
        /\ outcomes[p][1].exc = Text("http_error", 2001)
        /\ calendar[p].status = "failed"
        /\ \E i \in RowsFor(p) : posts_log[i].error_message = Text("http_error", 2000)
        /\ failed[1] = 1
        /\ pc[1] = "done"

\* C9: a selected post without a credential record is set to failed with the
\* no-connection message, no handler and no HTTP call is made for it, it is
\* counted as failed, and the run goes on with the next post.
C9_NoConnectionFails ==
    \A p \in PostIds :
        ~Connected(p) =>
            /\ Invoked(p) = 0
            /\ http[p] = << >>
            /\ published[p] = 0
            /\ calendar[p].status # "posted"
            /\ \A i \in RowsFor(p) :
                  /\ posts_log[i].error_message.tag = "no_connection"
                  /\ posts_log[i].external_post_id = None
                  /\ calendar[p].status = "failed"
            /\ \A r \in Runners : \A i \in Processed(r) :
                  (pending[r][i].id = p /\ calendar[p].platform \in Registered) =>
                      /\ calendar[p].status = "failed"
                      /\ Cardinality(RowsFor(p)) = 1
                      /\ failed[r] >= 1
                      /\ (pc[r] = "done" \/ InLoop(r))

\* C9 witness: the first post of a run had no connection and is failed with
\* the no-connection message; the run went on and posted the second.
C9_Witness ==
    /\ pc[1] = "done"
    /\ Len(pending[1]) = 2
    /\ ~Connected(pending[1][1].id)
    /\ calendar[pending[1][1].id].status = "failed"
    /\ \E i \in RowsFor(pending[1][1].id) : posts_log[i].error_message.tag = "no_connection"
    /\ calendar[pending[1][2].id].status = "posted"
    /\ failed[1] = 1

\* C10: the step of a run on a selected post whose platform has no registered
\* handler adds one to skipped and changes nothing else: not the calendar, the
\* companion log, the looked-up connection, the platform side or the other
\* counters.
C10_SkipChangesNothingElse ==
    [][\A r \in Runners :
          (/\ pc[r] = "loop"
           /\ Post(r).platform \notin Registered
           /\ (pc'[r] # pc[r] \/ idx'[r] # idx[r] \/ skipped'[r] # skipped[r]))
          => /\ skipped'[r] = skipped[r] + 1
             /\ failed'[r] = failed[r]
             /\ success'[r] = success[r]
             /\ idx'[r] = idx[r] + 1
             /\ pc'[r] \in {"loop", "done"}
             /\ calendar' = calendar
             /\ posts_log' = posts_log
             /\ connections' = connections
             /\ connection' = connection
             /\ outcomes' = outcomes
             /\ http' = http
             /\ published' = published
      ]_vars

\* C10 witness: a completed run skipped a due pending post of an unregistered
\* platform; the post is still pending, without handler call or companion
\* record.
C10_Witness ==
    /\ pc[1] = "done"
    /\ skipped[1] = 1
    /\ failed[1] = 0
    /\ \E p \in PostIds :
          /\ calendar[p].platform = "linkedin"
          /\ calendar[p].status = "pending"
          /\ calendar[p].scheduled_at <= now
          /\ Invoked(p) = 0
          /\ RowsFor(p) = {}

\* C11: every post whose status is posted or failed has exactly one of
\* {external id, error message} recorded for it, the external id and no error
\* when posted, the error and no external id when failed, also between the
\* individual store writes of a dispatcher step.  The status write and the write
\* of the companion row are two store calls: after the first, the post is
\* posted (or failed) with neither recorded.
C11_ExactlyOneRecorded ==
    \A p \in PostIds :
        calendar[p].status \in Terminal =>
            /\ Cardinality(RowsFor(p)) = 1
            /\ \A i \in RowsFor(p) :
                  /\ calendar[p].status = "posted" =>
                        /\ posts_log[i].external_post_id # None
                        /\ posts_log[i].error_message = NoText
                  /\ calendar[p].status = "failed" =>
                        /\ posts_log[i].external_post_id = None
                        /\ posts_log[i].error_message # NoText

C14_ResumePublishesOnce ==
    \A p \in PostIds : runs[1] >= 1 => published[p] <= 1

\* C20: the Instagram adapter, called for a post without an image (image_url
\* absent or empty), raises the missing-image error and makes no network call;
\* the dispatcher then marks the post failed.
C20_InstagramNeedsImage ==
    \A p \in PostIds :
        (calendar[p].platform = "instagram" /\ calendar[p].image_url \in {None, ""}) =>
            /\ http[p] = << >>
            /\ published[p] = 0
            /\ \A i \in 1..Invoked(p) :
                  /\ outcomes[p][i].raised
                  /\ outcomes[p][i].exc = Text("missing_image", 37)
            /\ \A r \in Runners : \A i \in Processed(r) :
                  pending[r][i].id = p => calendar[p].status = "failed"
            /\ (Invoked(p) >= 1 /\ calendar[p].status # "pending") =>
                  /\ calendar[p].status = "failed"
                  /\ \A i \in RowsFor(p) :
                        posts_log[i].error_message = Text("missing_image", 37)

\* C20 witness: an Instagram post with an empty image_url and one with none
\* were handed to the adapter and are failed with the missing-image error.
C20_Witness ==
    \E p \in PostIds :
        /\ calendar[p].platform = "instagram"
        /\ calendar[p].image_url = ""
        /\ Raised(p)
        /\ http[p] = << >>
        /\ calendar[p].status = "failed"
        /\ \E i \in RowsFor(p) : posts_log[i].error_message = Text("missing_image", 37)

\* position of a status in the lifecycle draft -> pending -> posted | failed
StatusRank(status) ==
    CASE status = "draft" -> 0
      [] status = "pending" -> 1
      [] status \in Terminal -> 2

\* C13: under any interleaving of Gate runs and dispatcher runs, two Gate runs
\* that read the same draft before either writes included, no status moves
\* backward.  apply_qa_result updates the row by id whatever its status is: a
\* Gate run that read the post as a draft writes pending over the posted or
\* failed the dispatcher wrote after the other Gate run released the post.
C13_StatusNeverBackward ==
    [][\A p \in PostIds :
          StatusRank(calendar'[p].status) >= StatusRank(calendar[p].status)]_vars

\* the audit-log entries of post p, by position in the log
LogFor(p) == { i \in 1..Len(qa_log) : qa_log[i].calendar_id = p }

NonBlank(s) == \E i \in 1..Len(s) : s[i] \notin Whitespace

\* C15: for six integer scores in 1..10 the average call_claude_qa returns is
\* their mean rounded to one decimal, and its verdict is APPROVED exactly when
\* that average is at least 7.0, which is when the scores sum to at least 42,
\* and REWRITE otherwise, whatever average and verdict the answer carried.
C15_AverageAndVerdict ==
    \A g \in Gates :
        (gate_pc[g] = "apply" /\ DOMAIN qa[g].scores = Dimensions
            /\ \A d \in Dimensions : qa[g].scores[d] \in 1..10) =>
            LET total == SumOver(qa[g].scores, Dimensions)
            IN  /\ 6 * qa[g].average - 10 * total \in -3..3
                /\ qa[g].verdict \in {"APPROVED", "REWRITE"}
                /\ qa[g].verdict = "APPROVED" <=> qa[g].average >= 70
                /\ qa[g].verdict = "APPROVED" <=> total >= 42

\* C15 witness: six sevens (sum 42) came back from call_claude_qa as average
\* 7.0, APPROVED.
C15_Witness ==
    /\ gate_pc[1] = "apply"
    /\ qa[1].scores = AllAt(7)
    /\ qa[1].average = 70
    /\ qa[1].verdict = "APPROVED"

\* C16: the update of a scored post in a non-dry run sets status pending and
\* qa_score to the computed average; it replaces post_text by the improved text
\* and sets qa_rewritten exactly when the verdict is REWRITE and the improved
\* text is not blank, and otherwise leaves the text and sets qa_rewritten false.
C16_ApplyQaResult ==
    [][\A g \in Gates :
          (gate_pc[g] = "apply" /\ gate_pc'[g] # "apply" /\ ~gate_args[g].dry_run) =>
              LET p == GatePost(g).id
              IN  /\ calendar'[p].status = "pending"
                  /\ qa_columns'[p].qa_score = qa[g].average
                  /\ IF qa[g].verdict = "REWRITE" /\ NonBlank(qa[g].improved_version)
                     THEN /\ qa_columns'[p].post_text = strip(qa[g].improved_version)
                          /\ qa_columns'[p].qa_rewritten
                     ELSE /\ qa_columns'[p].post_text = qa_columns[p].post_text
                          /\ ~qa_columns'[p].qa_rewritten]_vars

\* C16 witness: a post was rewritten, another run later passed a post whose
\* verdict was REWRITE with a blank improved text.
C16_Witness ==
    /\ gate_pc[1] = "log_insert"
    /\ ~gate_args[1].dry_run
    /\ qa[1].verdict = "REWRITE"
    /\ qa[1].improved_version = << " " >>
    /\ qa_columns[GatePost(1).id].post_text = OriginalText
    /\ calendar[GatePost(1).id].status = "pending"
    /\ \E p \in PostIds :
          /\ qa_columns[p].post_text = << "n" >>
          /\ qa_columns[p].qa_rewritten
          /\ qa_columns[p].qa_score = 68

\* the positions of drafts[g] that call_claude_qa returned a result for in the
\* run of g that has ended
ScoredIn(g) ==
    { i \in 1..Len(drafts[g]) :
        /\ i <= gate_idx[g]
        /\ oracle[drafts[g][i].id] # << >>
        /\ oracle[drafts[g][i].id][Len(oracle[drafts[g][i].id])] }

\* C17: a non-dry run appends exactly one audit-log entry for every post it
\* scored, also when the write that mutates the post fails.  apply_qa_result
\* updates the calendar row first and inserts the audit-log row afterwards, and
\* nothing catches an exception of the update: the scored post gets no entry.
C17_OneAuditEntry ==
    \A g \in Gates :
        (gate_pc[g] \in {"done", "aborted"} /\ ~gate_args[g].dry_run) =>
            \A i \in ScoredIn(g) : Cardinality(LogFor(drafts[g][i].id)) = 1

\* C18: call_claude_qa asks the oracle at most 3 times for a post and stops at
\* the first answer it accepts; when all 3 fail the post stays exactly as it
\* was, with no audit-log entry, and the Gate goes on with the remaining posts.
C18_ThreeAttempts ==
    \A g \in Gates :
        gate_runs[g] = 1 =>
            /\ \A p \in PostIds :
                  /\ Len(oracle[p]) <= 3
                  /\ \A i \in 1..Len(oracle[p]) : oracle[p][i] => i = Len(oracle[p])
            /\ \A i \in 1..Len(drafts[g]) :
                  LET p == drafts[g][i].id
                  IN  /\ oracle[p] = << FALSE, FALSE, FALSE >> =>
                            /\ calendar[p].status = "draft"
                            /\ qa_columns[p] = Unreviewed
                            /\ LogFor(p) = {}
                            /\ gate_idx[g] > i
                      /\ gate_pc[g] = "done" => oracle[p] # << >>

\* C18 witness: a run over two drafts: three failed attempts for the first,
\* which is still a draft, then the second was scored at its second attempt.
C18_Witness ==
    /\ gate_pc[1] = "done"
    /\ gate_runs[1] = 1
    /\ ~gate_args[1].dry_run
    /\ Len(drafts[1]) = 2
    /\ oracle[drafts[1][1].id] = << FALSE, FALSE, FALSE >>
    /\ oracle[drafts[1][2].id] = << FALSE, TRUE >>
    /\ calendar[drafts[1][1].id].status = "draft"
    /\ calendar[drafts[1][2].id].status = "pending"

\* C19: a dry run writes nothing: the calendar and the audit log are the same
\* before and after every step of it.
C19_DryRunWritesNothing ==
    [][gate_args'[1].dry_run =>
          /\ calendar' = calendar
          /\ qa_columns' = qa_columns
          /\ qa_log' = qa_log]_vars

\* C19 witness: a dry run has ended that scored a post with a rewrite verdict
\* and an improved text; the post is the draft it was.
C19_Witness ==
    /\ gate_pc[1] = "done"
    /\ gate_args[1].dry_run
    /\ reviewed[1] >= 1
    /\ qa[1].verdict = "REWRITE"
    /\ NonBlank(qa[1].improved_version)
    /\ \A i \in 1..Len(drafts[1]) :
          /\ calendar[drafts[1][i].id].status = "draft"
          /\ qa_columns[drafts[1][i].id] = Unreviewed
          /\ LogFor(drafts[1][i].id) = {}

\* C21: the Instagram adapter makes the publish call only after the container
\* call succeeded and returned a creation id; when the container call is
\* answered with a failure or raises, no publish call is made and the adapter
\* raises; it returns an id only when both calls succeeded.
C21_InstagramStepOrder ==
    \A p \in PostIds :
        calendar[p].platform = "instagram" =>
            /\ Len(answers[p]) = Len(http[p])
            /\ \A j \in 1..Len(http[p]) :
                  http[p][j].endpoint = "ig_media_publish" =>
                      /\ j > 1
                      /\ http[p][j - 1].endpoint = "ig_media"
                      /\ answers[p][j - 1].ok
                      /\ answers[p][j - 1].json.id # None
            /\ Invoked(p) = 1 =>
                  /\ (Len(http[p]) >= 1 /\ ~answers[p][1].ok) =>
                        /\ Len(http[p]) = 1
                        /\ Raised(p)
                        /\ published[p] = 0
                  /\ Returned(p) =>
                        /\ Len(http[p]) = 2
                        /\ answers[p][1].ok
                        /\ answers[p][2].ok

\* C21 witness: the container call of an Instagram post with an image was
\* answered with a failure; the adapter made no second call and the post is
\* failed.
C21_Witness ==
    \E p \in PostIds :
        /\ calendar[p].platform = "instagram"
        /\ Len(http[p]) = 1
        /\ http[p][1].endpoint = "ig_media"
        /\ ~answers[p][1].ok
        /\ Raised(p)
        /\ calendar[p].status = "failed"

\* C22: the Facebook adapter returns the answer's post_id when present,
\* otherwise its id; a 2xx answer that holds neither makes it fail, so the post
\* is marked failed and never posted under a placeholder external id.  The code
\* returns the literal "unknown" for such an answer and run() marks the post
\* posted with it.
C22_FacebookIdOrFailure ==
    \A p \in PostIds :
        (calendar[p].platform = "facebook" /\ Invoked(p) = 1 /\ Len(answers[p]) = 1
            /\ answers[p][1].ok) =>
            /\ answers[p][1].json.post_id # None =>
                  Returned(p) /\ outcomes[p][1].value = answers[p][1].json.post_id
            /\ (answers[p][1].json.post_id = None /\ answers[p][1].json.id # None) =>
                  Returned(p) /\ outcomes[p][1].value = answers[p][1].json.id
            /\ (answers[p][1].json.post_id = None /\ answers[p][1].json.id = None) =>
                  /\ Raised(p)
                  /\ calendar[p].status # "posted"
                  /\ \A i \in RowsFor(p) : posts_log[i].external_post_id = None

\* the positions of http[p] that hold a call to endpoint
CallsTo(p, endpoint) == { j \in 1..Len(http[p]) : http[p][j].endpoint = endpoint }

\* the token calls for p that were answered with an access token
Exchanges(p) ==
    { j \in CallsTo(p, "google_token") :
        answers[p][j].ok /\ answers[p][j].json.access_token # None }

\* C23: no dispatcher run writes to the credential store: every credential row
\* stays as it was, the refresh token is what each token call sends, and the
\* access token of an exchange is used for exactly one local-post call.
C23_CredentialsNeverWritten ==
    [][/\ connections' = connections
       /\ \A p \in PostIds :
             calendar[p].platform = "google_business" =>
                 /\ \A j \in CallsTo(p, "google_token")' :
                       \E c \in connections :
                           /\ c.client_id = calendar[p].client_id
                           /\ c.platform = "google_business"
                           /\ c.access_token = http'[p][j].auth
                 /\ \A j \in Exchanges(p)' :
                       /\ j + 1 \in CallsTo(p, "gb_local_posts")'
                       /\ http'[p][j + 1].auth = answers'[p][j].json.access_token
                 /\ Cardinality(CallsTo(p, "gb_local_posts")') = Cardinality(Exchanges(p)')]_vars

\* C23 witness: a Google Business post was published through an exchanged
\* token and the credential rows are the ones the store started with.
C23_Witness ==
    \E p \in PostIds :
        /\ calendar[p].platform = "google_business"
        /\ calendar[p].status = "posted"
        /\ Exchanges(p) = {1}
        /\ http[p][2].auth = "T"
        /\ connections = InitialConnections
        /\ \A c \in connections : c.access_token # "T"

\* C24: the Google Business adapter makes its local-post call only after the
\* token call succeeded, with the access token that call returned; when the
\* exchange fails no local-post call is made, the adapter raises and the post
\* is marked failed.
C24_GoogleTokenFirst ==
    \A p \in PostIds :
        calendar[p].platform = "google_business" =>
            /\ Len(answers[p]) = Len(http[p])
            /\ \A j \in CallsTo(p, "gb_local_posts") :
                  /\ j > 1
                  /\ j - 1 \in Exchanges(p)
                  /\ http[p][j].auth = answers[p][j - 1].json.access_token
            /\ (Invoked(p) = 1 /\ Exchanges(p) = {}) =>
                  /\ CallsTo(p, "gb_local_posts") = {}
                  /\ Raised(p)
                  /\ published[p] = 0
                  /\ \A r \in Runners : \A i \in Processed(r) :
                        pending[r][i].id = p => calendar[p].status = "failed"

\* C24 witness: the token call of a Google Business post failed; no local-post
\* call was made and the post is failed.
C24_Witness ==
    \E p \in PostIds :
        /\ calendar[p].platform = "google_business"
        /\ Len(http[p]) = 1
        /\ http[p][1].endpoint = "google_token"
        /\ ~answers[p][1].ok
        /\ Raised(p)
        /\ calendar[p].status = "failed"

\* C25: a run started with a required setting missing aborts before any record
\* is touched: no status changes and no companion or audit-log row is written.
\* GOOGLE_CLIENT_ID and GOOGLE_CLIENT_SECRET are read inside refresh_google_token,
\* when the first Google Business post is published: the run works through its
\* posts and marks that post failed.
C25_MissingSettingAborts ==
    [][~(Settings \subseteq environ) =>
          /\ calendar' = calendar
          /\ posts_log' = posts_log
          /\ qa_log' = qa_log]_vars

\* run() of runner r returned
Completed(r) == pc[r] \in {"done", "no_pending"}

\* run() of runner r printed the line with its three counters
Reported(r) == pc[r] = "done"

\* the positions of pending[r] whose post has a status now
SelectedNow(r, status) ==
    { i \in 1..Len(pending[r]) : calendar[pending[r][i].id].status = status }

\* the counters of runner r are the numbers of selected posts it moved to
\* posted, moved to failed and left pending for want of a handler
CountersMatch(r) ==
    /\ success[r] + failed[r] + skipped[r] = Len(pending[r])
    /\ success[r] = Cardinality(SelectedNow(r, "posted"))
    /\ failed[r] = Cardinality(SelectedNow(r, "failed"))
    /\ skipped[r] = Cardinality({ i \in SelectedNow(r, "pending") :
                                    pending[r][i].platform \notin PLATFORM_HANDLERS })

\* C26: every run that completes reports the counts posted, failed and
\* skipped, a run that selected no post included, and the counts are those of
\* the posts it moved to posted, moved to failed and skipped.  A run that
\* selects no post prints "No pending posts." and returns before the counters
\* exist: it reports no counts.
C26_CountersReported ==
    \A r \in Runners : Completed(r) => Reported(r) /\ CountersMatch(r)

\* post p has exactly one companion row, and that row carries a time together
\* with an external id or an error text, not both and not neither
OneCompanionRow(p) ==
    /\ Cardinality(RowsFor(p)) = 1
    /\ \A i \in RowsFor(p) :
          \/ /\ posts_log[i].external_post_id # None
             /\ posts_log[i].error_message = NoText
             /\ posts_log[i].posted_at \in 0..now
             /\ calendar[p].status = "posted"
          \/ /\ posts_log[i].external_post_id = None
             /\ posts_log[i].error_message # NoText
             /\ posts_log[i].error_message.len > 0
             /\ posts_log[i].posted_at \in 0..now
             /\ calendar[p].status = "failed"

\* C27: the companion log is append-only with one row per outcome: a step
\* leaves every existing row as it is, and whenever no run is inside its loop
\* every posted or failed post has exactly one row, with a timestamp and an
\* external id or an error text.
C27_CompanionLogAppendOnly ==
    [][/\ Len(posts_log') >= Len(posts_log)
       /\ \A i \in 1..Len(posts_log) : posts_log'[i] = posts_log[i]
       /\ (\A r \in Runners : ~InLoop(r))' =>
             (\A p \in PostIds : calendar[p].status \in Terminal => OneCompanionRow(p))'
       /\ (\A p \in PostIds : calendar[p].status \notin Terminal => RowsFor(p) = {})']_vars

\* ------------------------------------------------------- several pages
\* handle_facebook stores one credential row per managed page: client c1 has
\* authorised two Facebook pages, each with its own page token
PagesConnections ==
    InitialConnections \cup { Connection("c1", "facebook", "page2", "fb_token2") }

\* every post is a pending, due Facebook post of client c1
InitPages ==
    \E cal \in [1..MaxPosts -> CalendarRows] :
        /\ \A p \in 1..MaxPosts :
              /\ cal[p].client_id = "c1"
              /\ cal[p].platform = "facebook"
              /\ cal[p].scheduled_at = 0
              /\ cal[p].status = "pending"
        /\ InitStore(cal, PagesConnections, Settings)

NextPages == DispatchPipelineStep(1)

SpecPages == InitPages /\ [][NextPages]_vars

\* the credential rows whose token the platform calls made for p carried
UsedConnections(p) ==
    { c \in connections : \E j \in 1..Len(http[p]) : http[p][j].auth = c.access_token }

\* C28: every publish attempt uses exactly one credential record, of the
\* post's client and platform, and with several records for one client and
\* platform every post of that client and platform uses the same record.
C28_OneCredentialUsed ==
    /\ \A p \in PostIds :
          http[p] # << >> =>
              /\ Cardinality(UsedConnections(p)) = 1
              /\ \A c \in UsedConnections(p) :
                    c.client_id = calendar[p].client_id /\ c.platform = calendar[p].platform
    /\ \A p, q \in PostIds :
          (/\ http[p] # << >>
           /\ http[q] # << >>
           /\ calendar[p].client_id = calendar[q].client_id
           /\ calendar[p].platform = calendar[q].platform) =>
              UsedConnections(p) = UsedConnections(q)

\* the status run() leaves post p in, from the post's own platform, credential
\* row and handler outcome
StatusOf(p) ==
    IF calendar[p].platform \notin PLATFORM_HANDLERS THEN "pending"
    ELSE IF ~Connected(p) THEN "failed"
    ELSE IF Returned(p) THEN "posted"
    ELSE "failed"

\* the companion row of post p, its time left aside, from the post's own data
\* and handler outcome
CompanionOf(p) ==
    IF ~Connected(p)
    THEN FailedRow(p, calendar[p].client_id, calendar[p].platform, Text("no_connection", 50))
    ELSE IF Returned(p)
    THEN PostedRow(p, calendar[p].client_id, calendar[p].platform, outcomes[p][1].value, -1)
    ELSE FailedRow(p, calendar[p].client_id, calendar[p].platform, outcomes[p][1].exc)

\* the posts of the selection of run r that StatusOf puts in status s
SelectedOf(r, s) == { i \in 1..Len(pending[r]) : StatusOf(pending[r][i].id) = s }

CompleteScores(scores) ==
    /\ DOMAIN scores = Dimensions
    /\ \A d \in Dimensions : scores[d] \in 1..10

\* C30: a malformed or incomplete oracle answer (unparseable, a field missing,
\* fewer than six scores, a score outside 1..10) never yields a verdict:
\* whenever call_claude_qa has returned a result for a post, and when the post
\* is moved from draft to pending with it, the result holds six scores from 1
\* to 10.
C30_MalformedNeverScored ==
    \A g \in Gates :
        gate_pc[g] \in {"apply", "log_insert"} => CompleteScores(qa[g].scores)

\* ------------------------------------------------------ credential upsert
MaxUpserts == 3

\* the column values the authorization exchange is run with
OAuthClients == {"c1"}

OAuthPlatforms == {"facebook", "instagram"}

OAuthPages == {"page1", "page2"}

OAuthTokens == {"token1", "token2"}

\* on_conflict="client_id,platform,page_id"
SameTuple(a, b) ==
    a.client_id = b.client_id /\ a.platform = b.platform /\ a.page_id = b.page_id

\* faulty variant: the record is inserted whether or not its tuple is stored
upsert_NoConflictTarget(rows, record) == rows \cup {record}

\* table.upsert(record, on_conflict="client_id,platform,page_id"): the row of
\* the record's tuple is replaced by the record, or the record is inserted
upsert(rows, record) == { c \in rows : ~SameTuple(c, record) } \cup {record}

\* upsert_connection(sb, client_id, platform, page_id, page_name, access_token)
upsert_connection(c, pf, page, token) ==
    /\ upserts < MaxUpserts
    /\ upserts' = upserts + 1
    /\ upserted' = Connection(c, pf, page, token)
    /\ connections' = upsert(connections, Connection(c, pf, page, token))
    /\ UNCHANGED << calendar, posts_log, now, runnerVars, platformVars, storeFaults,
                    gateState, environ, webhookVars >>

\* the credential store is empty, no post is in the calendar
InitOAuth == InitStore(<< >>, {}, Settings)

NextOAuth ==
    \E c \in OAuthClients, pf \in OAuthPlatforms, page \in OAuthPages, token \in OAuthTokens :
        upsert_connection(c, pf, page, token)

SpecOAuth == InitOAuth /\ [][NextOAuth]_vars

\* C31: the credential store holds at most one record per (client_id, platform,
\* page_id); an upsert leaves the store holding its record, leaves the records
\* of every other tuple as they were, adds no record of another tuple, and an
\* upsert of a record the store holds already leaves the store unchanged.
C31_UpsertOnePerTuple ==
    [][/\ \A a, b \in connections' : SameTuple(a, b) => a = b
       /\ upserts' = upserts + 1 =>
             /\ upserted' \in connections'
             /\ \A c \in connections : ~SameTuple(c, upserted') => c \in connections'
             /\ \A c \in connections' : ~SameTuple(c, upserted') => c \in connections
             /\ upserted' \in connections => connections' = connections]_vars

\* C31 witness: three upserts, the last one for a tuple stored before with
\* another token; the store holds two records, the new token replaced the old.
C31_Witness ==
    /\ upserts = 3
    /\ upserted = Connection("c1", "facebook", "page1", "token2")
    /\ connections = { Connection("c1", "facebook", "page1", "token2"),
                       Connection("c1", "facebook", "page2", "token1") }

\* C32: a post is posted only if its handler call returned, and failed only if
\* no publish of it succeeded on the platform, whatever store write fails after
\* the handler call.  mark_posted runs inside the try block of run(): when one
\* of its two writes raises, the except block calls mark_failed for a post that
\* is published.
C32_PublishedNeverFailed ==
    \A p \in PostIds :
        /\ calendar[p].status = "posted" => Returned(p)
        /\ calendar[p].status = "failed" => published[p] = 0

\* a write of mark_posted or mark_failed is the next statement of run r
AtStoreWrite(r) ==
    pc[r] \in {"posted_update", "posted_insert", "failed_update", "no_conn_update",
               "failed_insert"}

\* a write of apply_qa_result is the next statement of Gate run g
AtGateWrite(g) == gate_pc[g] \in {"apply", "log_insert"}

\* C33: a failing store write for one post is isolated to that post: it ends
\* neither the dispatcher run nor the Quality Gate run, which go on to the
\* remaining posts and their report.  mark_failed is called outside any try
\* block, and so is apply_qa_result: an exception of theirs ends the process.
C33_WriteFailureIsolated ==
    [][/\ \A r \in Runners : AtStoreWrite(r) => pc'[r] # "crashed"
       /\ \A g \in Gates : AtGateWrite(g) => gate_pc'[g] # "aborted"]_vars

\* ------------------------------------------------------------ termination
\* run() is a sequential program: a statement that can be executed is
\* executed, and cron starts the next run.  Every post is due, the record
\* store answers every call.
NextLive == Step(1)

SpecLive == InitFaults /\ [][NextLive]_vars /\ WF_vars(Step(1))

\* the ids of the rows run r selected, in the order of the loop
SelectedIds(r) == [i \in 1..Len(pending[r]) |-> pending[r][i].id]

\* C34: every run terminates having visited each selected post exactly once
\* (the loop goes through the selection position by position, no post occurs
\* twice in it, no handler is called twice for a post), at the end of a run
\* every selected post of a registered platform is posted or failed, and only
\* posts of an unregistered platform are still pending after their scheduled
\* time.
C34_RunTerminates ==
    /\ [](\A r \in Runners :
             /\ \A i, j \in 1..Len(pending[r]) :
                   SelectedIds(r)[i] = SelectedIds(r)[j] => i = j
             /\ \A p \in PostIds : Invoked(p) <= 1
             /\ pc[r] = "done" =>
                   /\ idx[r] = Len(pending[r]) + 1
                   /\ \A i \in 1..Len(pending[r]) :
                         pending[r][i].platform \in PLATFORM_HANDLERS =>
                             calendar[SelectedIds(r)[i]].status \in Terminal
                   /\ \A p \in PostIds :
                         (calendar[p].status = "pending" /\ calendar[p].scheduled_at <= now) =>
                             calendar[p].platform \notin PLATFORM_HANDLERS)
    /\ [][\A r \in Runners :
             (InLoop(r) /\ idx'[r] # idx[r]) =>
                 /\ idx'[r] = idx[r] + 1
                 /\ pc[r] \in {"loop", "posted_insert", "failed_insert"}]_vars
    /\ \A r \in {1} : InLoop(r) ~> pc[r] = "done"

\* C34 witness: the second run has ended; the first handled a post of a
\* registered platform, the second selected only the post of the unregistered
\* platform, which is still pending.
C34_Witness ==
    /\ runs[1] = 2
    /\ pc[1] = "done"
    /\ Len(pending[1]) = 1
    /\ pending[1][1].platform = "linkedin"
    /\ calendar[pending[1][1].id].status = "pending"
    /\ \E p \in PostIds : calendar[p].status \in Terminal

\* C35: the Facebook adapter makes exactly one network call per publish, the
\* photo call when the post has a non-empty image_url and the feed call
\* otherwise, and a non-success answer to that call makes the publish fail.
C35_FacebookOneCall ==
    \A p \in PostIds :
        (calendar[p].platform = "facebook" /\ Invoked(p) >= 1) =>
            /\ Len(http[p]) = Invoked(p)
            /\ Len(answers[p]) = Invoked(p)
            /\ \A j \in 1..Len(http[p]) :
                  /\ http[p][j].endpoint =
                        IF HasImage(calendar[p]) THEN "fb_photos" ELSE "fb_feed"
                  /\ ~answers[p][j].ok =>
                        /\ outcomes[p][j].raised
                        /\ outcomes[p][j].exc = answers[p][j].exc
                        /\ published[p] = 0
                        /\ calendar[p].status # "posted"

\* C35 witness: a run handled a Facebook post with an image through one photo
\* call and one without through one feed call; the feed call was answered with
\* an error and that post is failed.
C35_Witness ==
    /\ pc[1] = "done"
    /\ \E p, q \in PostIds :
          /\ calendar[p].platform = "facebook"
          /\ calendar[q].platform = "facebook"
          /\ calendar[p].image_url = "img"
          /\ calendar[q].image_url = ""
          /\ Len(http[p]) = 1
          /\ http[p][1].endpoint = "fb_photos"
          /\ Len(http[q]) = 1
          /\ http[q][1].endpoint = "fb_feed"
          /\ ~answers[q][1].ok
          /\ calendar[q].status = "failed"
          /\ calendar[p].status = "posted"

\* C36: when both Instagram steps succeed the adapter returns the id of the
\* publish-step answer, and the creation id of step 1 exactly when the
\* publish-step answer carries no id.
C36_InstagramReturnedId ==
    \A p \in PostIds :
        (calendar[p].platform = "instagram" /\ Returned(p)) =>
            /\ Len(answers[p]) = 2
            /\ answers[p][1].ok
            /\ answers[p][2].ok
            /\ answers[p][1].json.id # None
            /\ answers[p][2].json.id # None =>
                  outcomes[p][1].value = answers[p][2].json.id
            /\ outcomes[p][1].value = answers[p][1].json.id <=>
                  answers[p][2].json.id = None

\* C36 witness: two Instagram posts were published in one run; the publish
\* step answered the first with an id, which was returned, and the second
\* without one, for which the creation id was returned.
C36_Witness ==
    /\ pc[1] = "done"
    /\ \E p, q \in PostIds :
          /\ calendar[p].platform = "instagram"
          /\ calendar[q].platform = "instagram"
          /\ Returned(p)
          /\ Returned(q)
          /\ answers[p][2].json.id = "M"
          /\ outcomes[p][1].value = "M"
          /\ answers[q][2].json.id = None
          /\ outcomes[q][1].value = "C"
          /\ \E i \in RowsFor(q) : posts_log[i].external_post_id = "C"

\* the posts of the selection of Gate run g whose row says their text was
\* replaced
RewrittenIn(g) == { i \in 1..Len(drafts[g]) : qa_columns[drafts[g][i].id].qa_rewritten }

\* the posts of the selection of Gate run g logged with verdict APPROVED
ApprovedIn(g) ==
    { i \in 1..Len(drafts[g]) :
        \E k \in LogFor(drafts[g][i].id) : qa_log[k].verdict = "APPROVED" }

\* C37: when a Quality Gate run ends, approved + rewritten is the number of
\* posts reviewed, the approved count is the number of posts with verdict
\* APPROVED, and the rewritten count is the number of posts whose text was
\* replaced and whose qa_rewritten flag was set.  main() adds one to
\* rewritten_count for every verdict other than APPROVED, also when the answer
\* carries no improved text and the post is left as it was.
C37_GateCounts ==
    \A g \in Gates :
        gate_pc[g] = "done" =>
            /\ approved_count[g] + rewritten_count[g] = reviewed[g]
            /\ ~gate_args[g].dry_run =>
                  /\ approved_count[g] = Cardinality(ApprovedIn(g))
                  /\ rewritten_count[g] = Cardinality(RewrittenIn(g))

\* the Quality Gate has been over post p: its row carries a qa_score
Scored(p) == qa_columns[p].qa_score # NoScore

\* C38: no post is pending, posted or failed without having been moved from
\* draft to pending by the Quality Gate (such a post has a qa_score), and the
\* Gate writes a post only while its status is draft.  apply_qa_result updates
\* the row by id alone: a Gate run that read the post as a draft writes it
\* after another run moved it on.
C38_GateBeforeDispatch ==
    [][/\ \A p \in PostIds : calendar'[p].status # "draft" => Scored(p)'
       /\ \A g \in Gates :
             (gate_pc[g] = "apply" /\ gate_pc'[g] = "log_insert") =>
                 calendar[GatePost(g).id].status = "draft"]_vars

\* --------------------------------------------------------- Stripe webhook
MaxEvents == 2

\* a Python value that is truthy: neither None nor the empty string
Truthy(x) == x \notin {None, ""}

WebhookRequests ==
    { Request(sig, type, customer_email, details, plan, store_ok, mail_rc) :
        sig \in {"valid", "bad_signature", "bad_payload"},
        type \in {"checkout.session.completed", "customer.subscription.deleted",
                  "invoice.paid"},
        customer_email \in {None, "a@x"},
        details \in { Details("absent", None, None), Details("null", None, None),
                      Details("object", None, "Ann"), Details("object", "b@x", "Ann") },
        plan \in {None, "founder"},
        store_ok \in BOOLEAN,
        mail_rc \in {0, 1} }

\* session.get("customer_email") or session.get("customer_details", {}).get("email", ""):
\* with customer_details null the second get is called on None
SessionEmail(rq) ==
    IF Truthy(rq.customer_email) THEN [raised |-> FALSE, value |-> rq.customer_email]
    ELSE IF rq.customer_details.kind = "absent" THEN [raised |-> FALSE, value |-> ""]
    ELSE IF rq.customer_details.kind = "null" THEN [raised |-> TRUE, value |-> None]
    ELSE [raised |-> FALSE, value |-> rq.customer_details.email]

\* (session.get("customer_details") or {}).get("name", "")
SessionName(rq) ==
    IF rq.customer_details.kind = "object" THEN rq.customer_details.name ELSE ""

\* _plan_from_session for a session without subscription: the plan of the
\* metadata, else "unknown"
PlanFromSession(rq) == IF Truthy(rq.plan) THEN rq.plan ELSE "unknown"

ClientRow(id, email, name, plan, stripe_customer_id, status) ==
    [id |-> id, email |-> email, name |-> name, plan |-> plan,
     stripe_customer_id |-> stripe_customer_id, status |-> status]

\* _upsert_client: update the row found by email, or insert a new one
UpsertClient(rows, email, name, plan, customer) ==
    LET existing == { c \in rows : c.email = email }
    IN  IF existing # {}
        THEN LET client_id == (CHOOSE c \in existing : TRUE).id
             IN  { IF c.id = client_id
                   THEN ClientRow(c.id, c.email, name, plan, customer, "active")
                   ELSE c : c \in rows }
        ELSE rows \cup { ClientRow(Cardinality(rows) + 1, email, name, plan, customer, "active") }

\* update({"status": "cancelled"}).eq("stripe_customer_id", customer_id)
CancelClient(rows, customer) ==
    { IF c.stripe_customer_id = customer THEN [c EXCEPT !.status = "cancelled"] ELSE c :
        c \in rows }

\* the /webhook route, one request from its arrival to its answer; an
\* exception nothing catches is answered by the framework with 500
stripe_webhook(rq) ==
    /\ events < MaxEvents
    /\ events' = events + 1
    /\ delivered' = rq
    /\ IF rq.sig # "valid"
       THEN /\ response' = 400
            /\ UNCHANGED << clients, emails >>
       ELSE IF rq.type = "checkout.session.completed"
       THEN IF SessionEmail(rq).raised
            THEN /\ response' = 500
                 /\ UNCHANGED << clients, emails >>
            ELSE IF ~Truthy(SessionEmail(rq).value) \/ ~rq.store_ok
            THEN /\ response' = 200
                 /\ UNCHANGED << clients, emails >>
            ELSE /\ clients' = UpsertClient(clients, SessionEmail(rq).value, SessionName(rq),
                                            PlanFromSession(rq), rq.customer)
                 /\ emails' = IF rq.mail_rc = 0 THEN Append(emails, SessionEmail(rq).value)
                              ELSE emails
                 /\ response' = 200
       ELSE IF rq.type = "customer.subscription.deleted"
       THEN /\ clients' = IF rq.store_ok THEN CancelClient(clients, rq.customer) ELSE clients
            /\ emails' = emails
            /\ response' = 200
       ELSE /\ response' = 200
            /\ UNCHANGED << clients, emails >>
    /\ UNCHANGED << calendar, posts_log, connections, now, runnerVars, platformVars,
                    storeFaults, gateState, environ, oauthVars >>

InitWebhook == InitStore(<< >>, {}, Settings)

NextWebhook == \E rq \in WebhookRequests : stripe_webhook(rq)

SpecWebhook == InitWebhook /\ [][NextWebhook]_vars

\* C39: the webhook answers every event whose signature verifies with 200,
\* whatever the event type and the outcome of its handler, and answers a
\* request with an invalid payload or signature with 400 without writing a
\* client row or sending an email.  For a completed checkout without
\* customer_email and with customer_details null, get is called on None
\* outside the try block and the request is answered with 500.
C39_WebhookAlwaysAcks ==
    [][events' = events + 1 =>
          IF delivered'.sig = "valid"
          THEN response' = 200
          ELSE /\ response' = 400
               /\ clients' = clients
               /\ emails' = emails]_vars

====
